---------------------------- MODULE Spec2Model ----------------------------
(***************************************************************************)
(* A model of gitcube-lab's topological memory: the Memory Atom builder    *)
(* (memory/atom.py), the JSONL Memory Store (memory/store.py), the HFS     *)
(* navigator (hfs/hfs_demo.py), the meta-controller (memory/meta.py) and   *)
(* the validator's meta loop (hfs/ai_validator_hfs.py).                    *)
(*                                                                         *)
(* Conventions.                                                            *)
(*  - A Python value that may be absent (a missing dict key, None) is a    *)
(*    sequence of length 0 or 1: None == <<>>, Some(v) == <<v>>.           *)
(*  - Floats are integers counting a fixed unit. Baseline and metric       *)
(*    values count 1e-7, so that rounding to 6 decimals (_q) is rounding   *)
(*    to a multiple of 10. Flower coordinates count 1e-5 and areas count   *)
(*    0.5e-10 (abs(s) * 0.5 of a sum s of products of coordinates), so     *)
(*    that rounding to 9 decimals is rounding to a multiple of 20.         *)
(*    A float result also carries the sign of a zero, which repr() and     *)
(*    json.dumps() print ("-0.0").                                         *)
(*  - A string that the code only compares is a TLA+ string; a string the  *)
(*    code takes apart (the dna signature) is a sequence of words, a word  *)
(*    a sequence of one-character strings.                                 *)
(*  - hashlib.sha256 is taken to be collision free: an atom_id is the      *)
(*    canonical payload that is hashed.                                    *)
(***************************************************************************)
EXTENDS Integers, Sequences, FiniteSets, TLC

VARIABLES
    clock,      \* time.time(), in ticks
    file,       \* the store file: [exists, lines]
    atoms,      \* the MemoryAtom objects the caller holds
    last,       \* the call log: upserts and petal areas per crystal_key, the last read and its
                \* result, and the rewrite of the file an upsert is in the middle of
    reps,       \* atom builder: the two reports under comparison
    built,      \* atom builder: the atoms built from them
    phase,      \* phase_state_from: inputs and result
    nav,        \* navigator_verdict: the risk series and the result
    pts,        \* flower: the point list
    area,       \* flower: polygon_area and shoelace_area of pts
    mem,        \* meta-control: the atoms read from the store file
    meta        \* meta-control: report and the results of both controllers

vars == <<clock, file, atoms, last, reps, built, phase, nav, pts, area, mem, meta>>

---------------------------------------------------------------------------
(* Python values *)

None == <<>>

Some(v) == <<v>>

IsSome(o) == o /= <<>>

\* d.get(key, default) / "x if x is not None else default"
Get(o, d) == IF o = <<>> THEN d ELSE o[1]

\* "x or default" on an optional string: None and "" are falsy
OrStr(o, d) == IF o = <<>> \/ o[1] = "" THEN d ELSE o[1]

\* "x or default" on an optional number: None and 0 are falsy
OrNum(o, d) == IF o = <<>> \/ o[1] = 0 THEN d ELSE o[1]

Max(a, b) == IF a >= b THEN a ELSE b

Min(a, b) == IF a <= b THEN a ELSE b

Abs(x) == IF x < 0 THEN -x ELSE x

RECURSIVE SumSeq(_)
SumSeq(s) == IF s = <<>> THEN 0 ELSE Head(s) + SumSeq(Tail(s))

\* s[:n]
Take(s, n) == SubSeq(s, 1, Min(Len(s), Max(0, n)))

\* s[-n:], n > 0
TakeLast(s, n) == SubSeq(s, Max(1, Len(s) - n + 1), Len(s))

---------------------------------------------------------------------------
(* memory/atom.py: helpers *)

\* round(float(x), ndigits): x to the nearest multiple of grain, a tie to the
\* even multiple; neg0 is the sign bit of a zero result.
_q(x, grain) ==
    LET lo == x \div grain
        r  == x % grain
        up == IF 2 * r > grain THEN 1
              ELSE IF 2 * r < grain THEN 0
              ELSE IF lo % 2 = 0 THEN 0 ELSE 1
        v  == (lo + up) * grain
    IN [v |-> v, neg0 |-> (x < 0 /\ v = 0)]

\* _q(None): float(None) raises, the except branch returns 0.0
_qOpt(o, grain) == IF o = <<>> THEN [v |-> 0, neg0 |-> FALSE] ELSE _q(o[1], grain)

Letters == {"A", "C", "D", "F", "M", "N", "P", "R", "S", "T", "W",
            "a", "d", "n", "t", "x"}

Digits == {"0", "1", "2", "3", "4", "5", "6", "7", "8", "9"}

\* str.lower() on the characters of the model's alphabet
Lower(c) ==
    CASE c = "A" -> "a" [] c = "C" -> "c" [] c = "D" -> "d" [] c = "F" -> "f"
      [] c = "M" -> "m" [] c = "N" -> "n" [] c = "P" -> "p" [] c = "R" -> "r"
      [] c = "S" -> "s" [] c = "T" -> "t" [] c = "W" -> "w" [] OTHER -> c

\* s.lower().startswith("dna:"), s the stripped signature: its first word
StartsWithDna(words) ==
    /\ words /= <<>>
    /\ Len(words[1]) >= 4
    /\ Lower(words[1][1]) = "d"
    /\ Lower(words[1][2]) = "n"
    /\ Lower(words[1][3]) = "a"
    /\ words[1][4] = ":"

\* s.split(":", 1)[1].strip() followed by split(): the words after the prefix
AfterDna(words) ==
    LET rest == SubSeq(words[1], 5, Len(words[1]))
    IN  IF rest = <<>> THEN Tail(words) ELSE <<rest>> \o Tail(words)

\* len(t) >= 2 and t[0].isalpha() and t[-1].isdigit()
IsKeyToken(t) == Len(t) >= 2 /\ t[1] \in Letters /\ t[Len(t)] \in Digits

\* [t for t in words if the token test holds]
KeyTokens(words) ==
    LET F[i \in 0..Len(words)] ==
            IF i = 0 THEN <<>>
            ELSE IF IsKeyToken(words[i]) THEN Append(F[i - 1], words[i]) ELSE F[i - 1]
    IN  F[Len(words)]

\* The dna_key is kept as the list of its tokens; "|".join is one to one on
\* tokens that hold no "|".
normalize_dna_key(dna, key_len) ==
    IF dna = <<>> THEN <<>>
    ELSE LET s    == IF StartsWithDna(dna) THEN AfterDna(dna) ELSE dna
         IN  Take(KeyTokens(s), Max(1, key_len))

\* str.upper() on the verdict strings of the model
Upper(s) ==
    CASE s = "allow" -> "ALLOW" [] s = "warn" -> "WARN" [] s = "block" -> "BLOCK"
      [] OTHER -> s

\* A fallback that ignores the verdict
_band_from_verdictFlat(verdict) == 6

\* atom.py 65-71
_band_from_verdict(verdict) ==
    LET v == Upper(verdict)
    IN  IF v = "BLOCK" THEN 1 ELSE IF v = "WARN" THEN 3 ELSE 6

NoMetrics ==
    [risk |-> None, last_risk |-> None, spectral_entropy |-> None,
     specH |-> None, entropy |-> None, cusum |-> None]

NoBaseline ==
    [mu |-> None, sigma |-> None, warn_threshold |-> None,
     block_threshold |-> None, last_risk |-> None, cusum |-> None, specH |-> None]

\* report["metrics"] if it is a dict, else report["metrics_last_window"], else {}
_pick_metrics(report) ==
    IF IsSome(report.metrics) THEN report.metrics[1]
    ELSE IF IsSome(report.metrics_last_window) THEN report.metrics_last_window[1]
    ELSE NoMetrics

_pick_prev_metrics(report) ==
    IF IsSome(report.metrics_prev_window) THEN report.metrics_prev_window[1]
    ELSE NoMetrics

\* _get_metric(metrics, *names, default): the first name present decides
_get_metric(cands, default) ==
    LET present == {i \in 1..Len(cands) : IsSome(cands[i])}
    IN  IF present = {} THEN default
        ELSE cands[CHOOSE i \in present : \A j \in present : i <= j][1]

---------------------------------------------------------------------------
(* memory/atom.py and memory/flower.py: the shoelace formula *)

RECURSIVE CrossSum(_, _)
\* sum over i >= k of x_i * y_(i+1) - x_(i+1) * y_i, indices cyclic
CrossSum(points, k) ==
    IF k > Len(points) THEN 0
    ELSE LET p == points[k]
             q == points[(k % Len(points)) + 1]
         IN  p[1] * q[2] - q[1] * p[2] + CrossSum(points, k + 1)

\* The signed sum, without abs
polygon_areaSigned(points) ==
    IF Len(points) < 3 THEN 0 ELSE CrossSum(points, 1)

\* atom.py 101-114: abs(s) * 0.5, in half square units
polygon_area(points) ==
    IF Len(points) < 3 THEN 0 ELSE Abs(CrossSum(points, 1))

\* flower.py 27-42: abs(area2) * 0.5, in half square units
shoelace_area(points) ==
    IF Len(points) < 3 THEN 0 ELSE Abs(CrossSum(points, 1))

\* extract_flower: the points of flower_cycle, else those of flower.points
extract_flower(report) ==
    LET cyc    == Get(report.flower_cycle, <<>>)
        fromC  == [i \in 1..Len(cyc) |-> <<Get(cyc[i].risk, 0), Get(cyc[i].specH, 0)>>]
        points == IF fromC /= <<>> THEN fromC ELSE Get(report.flower_points, <<>>)
        a      == IF Len(points) >= 3 THEN polygon_area(points) ELSE 0
    IN  [petal_area |-> a, points |-> points, area_sum |-> None, area_max |-> None]

---------------------------------------------------------------------------
(* memory/atom.py: phase logic *)

\* cusum_gate = 0.05, in units of 1e-7
cusum_gate == 500000

Deltas(report) ==
    LET baseline == Get(report.baseline, NoBaseline)
        metrics == _pick_metrics(report)
        prev    == _pick_prev_metrics(report)
        risk    == _get_metric(<<metrics.risk, metrics.last_risk>>, Get(report.risk, 0))
        specH   == _get_metric(<<metrics.spectral_entropy, metrics.specH, metrics.entropy>>, 0)
        cusum   == _get_metric(<<metrics.cusum>>, Get(baseline.cusum, 0))
    IN  IF prev /= NoMetrics
        THEN [d_risk  |-> risk - Get(prev.risk, risk),
              d_specH |-> specH - Get(prev.spectral_entropy, specH),
              d_cusum |-> cusum - Get(prev.cusum, cusum)]
        ELSE [d_risk  |-> risk - Get(baseline.last_risk, Get(baseline.mu, 0)),
              d_specH |-> specH - Get(baseline.specH, 5000000),
              d_cusum |-> cusum - Get(baseline.cusum, 0)]

\* A gate that forces the direction only when the change is above it
infer_phase_dirStrict(report, gate) ==
    LET d == Deltas(report)
    IN  IF Abs(d.d_cusum) > gate
        THEN (IF d.d_cusum > 0 THEN 2 ELSE 3)
        ELSE IF d.d_risk >= 0 /\ d.d_specH >= 0 THEN 0
        ELSE IF d.d_risk >= 0 THEN 1
        ELSE IF d.d_specH >= 0 THEN 4
        ELSE 5

\* atom.py 184-196
infer_phase_dir(report, gate) ==
    LET d == Deltas(report)
    IN  IF Abs(d.d_cusum) >= gate
        THEN (IF d.d_cusum > 0 THEN 2 ELSE 3)
        ELSE IF d.d_risk >= 0 /\ d.d_specH >= 0 THEN 0
        ELSE IF d.d_risk >= 0 THEN 1
        ELSE IF d.d_specH >= 0 THEN 4
        ELSE 5

\* A packing with five directions to the band
phase_state_fromBase5(band, phase_dir) ==
    LET b == Max(1, Min(7, band))
        d == Max(0, Min(5, phase_dir))
    IN  (b - 1) * 5 + d + 1

\* atom.py 203-206
phase_state_from(band, phase_dir) ==
    LET b == Max(1, Min(7, band))
        d == Max(0, Min(5, phase_dir))
    IN  (b - 1) * 6 + d + 1

---------------------------------------------------------------------------
(* memory/atom.py: MemoryAtom *)

\* key_len = 3, the default of from_report
key_len == 3

\* f"{k}:{d}" if d else k, kept as its two parts; kinds hold no ":"
compute_crystal_key(kind, dna_key) ==
    [kind |-> IF kind = "" THEN "NAVIGATOR_REPORT" ELSE kind, dna_key |-> dna_key,
     tag |-> "key"]

\* sha256 of the canonical json of the payload: the payload itself
compute_atom_id(kind, version, verdict, dna_key, band, phase_state, baseline, metrics, flower) ==
    [kind |-> kind, version |-> version, verdict |-> verdict, dna_key |-> dna_key,
     band |-> band, phase_state |-> phase_state,
     baseline |->
        [mu |-> _qOpt(baseline.mu, 10),
         sigma |-> _qOpt(baseline.sigma, 10),
         warn_threshold |-> _qOpt(baseline.warn_threshold, 10),
         block_threshold |-> _qOpt(baseline.block_threshold, 10)],
     metrics |->
        [risk  |-> _qOpt(IF IsSome(metrics.risk) THEN metrics.risk
                         ELSE metrics.last_risk, 10),
         specH |-> _qOpt(IF IsSome(metrics.specH) THEN metrics.specH
                         ELSE metrics.spectral_entropy, 10),
         cusum |-> _qOpt(IF IsSome(metrics.cusum) THEN metrics.cusum
                         ELSE Some(Get(baseline.cusum, 0)), 10)],
     flower |-> [petal_area |-> _q(flower.petal_area, 20)]]

\* context = {}; if repo: context["repo"] = repo; ...
ContextOf(ctx) ==
    [k \in {n \in {"repo", "ref", "note"} : OrStr(ctx[n], "") /= ""} |-> ctx[k][1]]

\* atom.py 336-346: the atom_id of the atom built from the report
StableId(report) ==
    LET kind     == OrStr(report.kind, OrStr(report.type, "NAVIGATOR_REPORT"))
        verdict  == Upper(OrStr(report.verdict, "ALLOW"))
        band     == Max(1, Min(7, OrNum(report.band, _band_from_verdict(verdict))))
    IN  compute_atom_id(kind, OrStr(report.version, "0.4"), verdict,
                        normalize_dna_key(Get(report.dna, <<>>), key_len), band,
                        phase_state_from(band, infer_phase_dir(report, cusum_gate)),
                        Get(report.baseline, NoBaseline), _pick_metrics(report),
                        extract_flower(report))

\* An identity that also hashes the context and the time of the call
AtomIdStamped(report, ctx, now) ==
    [payload |-> StableId(report), context |-> ContextOf(ctx), first_seen |-> now]

\* atom.py 336-346, where repo, ref, note and now are in scope
AtomId(report, ctx, now) == StableId(report)

\* atom.py 299-374; now = time.time()
from_report(report, ctx, now) ==
    LET kind     == OrStr(report.kind, OrStr(report.type, "NAVIGATOR_REPORT"))
        version  == OrStr(report.version, "0.4")
        verdict  == Upper(OrStr(report.verdict, "ALLOW"))
        dna      == Get(report.dna, <<>>)
        dna_key  == normalize_dna_key(dna, key_len)
        baseline == Get(report.baseline, NoBaseline)
        picked   == _pick_metrics(report)
        phase_dir == infer_phase_dir(report, cusum_gate)
        band     == Max(1, Min(7, OrNum(report.band, _band_from_verdict(verdict))))
        phase_state == phase_state_from(band, phase_dir)
        flower   == extract_flower(report)
    IN  [kind |-> kind, version |-> version, verdict |-> verdict,
         dna |-> dna, dna_key |-> dna_key,
         band |-> band, phase_dir |-> phase_dir, phase_state |-> phase_state,
         baseline |-> baseline,
         metrics |-> [m |-> picked, deltas |-> Deltas(report)],
         flower |-> flower,
         crystal_key |-> compute_crystal_key(kind, dna_key),
         strength |-> 1, first_seen |-> now, last_seen |-> now,
         context |-> ContextOf(ctx),
         atom_id |-> AtomId(report, ctx, now)]

\* The rows of the model are written from atoms and hold every field; from_dict
\* then only normalises the verdict.
from_dict(d) == [d EXCEPT !.verdict = Upper(@)]

---------------------------------------------------------------------------
(* memory/store.py: IO *)

\* A line of the file: "row" holds a json object, "scalar" valid json that is
\* no object, "junk" text that is no json, "blank" white space.
RowLine(r) == [tag |-> "row", row |-> r]

NoRow == [none |-> TRUE]

NoFile == [exists |-> FALSE, lines |-> <<>>]

\* json.loads succeeds on "row" and "scalar" lines; the others are skipped
Parsed(lines) ==
    LET F[i \in 0..Len(lines)] ==
            IF i = 0 THEN <<>>
            ELSE IF lines[i].tag \in {"row", "scalar"} THEN Append(F[i - 1], lines[i])
                 ELSE F[i - 1]
    IN  F[Len(lines)]

_read_all(f) == IF ~f.exists THEN <<>> ELSE Parsed(f.lines)

_write_all(rows) == [exists |-> TRUE, lines |-> rows]

IsDict(line) == line.tag = "row"

---------------------------------------------------------------------------
(* memory/store.py: append and upsert *)

\* An operation's outcome: the file and the caller's atom object after it, the
\* value returned, and whether an exception left the call instead.
Outcome(f, atom, ret, raised, idx) ==
    [file |-> f, atom |-> atom, ret |-> ret, raised |-> raised, idx |-> idx]

\* ck = str(atom.crystal_key or "").strip(), or f"{atom.kind}::(no_dna)"
CrystalOf(atom) ==
    IF atom.crystal_key.tag = "empty"
    THEN [kind |-> atom.kind, dna_key |-> <<>>, tag |-> "no_dna"]
    ELSE atom.crystal_key

\* A merge in which the incoming atom's values replace the old ones
MergeContextNewWins(old_ctx, new_ctx) ==
    [k \in DOMAIN old_ctx \cup DOMAIN new_ctx |->
        IF k \in DOMAIN new_ctx THEN new_ctx[k] ELSE old_ctx[k]]

\* store.py 133-139: the old keys keep their values, new keys are added
MergeContext(old_ctx, new_ctx) ==
    [k \in DOMAIN old_ctx \cup DOMAIN new_ctx |->
        IF k \in DOMAIN old_ctx THEN old_ctx[k] ELSE new_ctx[k]]

\* store.py 95-107: the new row d, which is atom.__dict__ itself
InsertRow(atom, ck, now) ==
    [atom EXCEPT
        !.crystal_key = ck,
        !.strength    = IF @ = 0 THEN 1 ELSE @,
        !.first_seen  = IF @ = 0 THEN now ELSE @,
        !.last_seen   = IF @ = 0 THEN now ELSE @,
        !.flower      = [@ EXCEPT !.area_sum = Some(atom.flower.petal_area),
                                  !.area_max = Some(atom.flower.petal_area)]]

\* A merge that takes the incoming atom's strength instead of counting
MergedStrengthReset(old) == 1

\* store.py 117: r["strength"] = int(r.get("strength", 1) or 1) + 1
MergedStrength(old) == (IF old = 0 THEN 1 ELSE old) + 1

\* store.py 118: r["first_seen"] = float(r.get("first_seen", now) or now)
MergedFirstSeen(old, now) == IF old = 0 THEN now ELSE old

\* store.py 119: r["last_seen"] = now
MergedLastSeen(old, now) == now

\* A flower that holds the latest petal only
MergedFlowerLatest(fl, atom) ==
    [petal_area |-> atom.flower.petal_area,
     points     |-> atom.flower.points,
     area_sum   |-> Some(atom.flower.petal_area),
     area_max   |-> Some(atom.flower.petal_area)]

\* store.py 146-154: the accumulated flower of the row
MergedFlower(fl, atom) ==
    [petal_area |-> atom.flower.petal_area,
     points     |-> atom.flower.points,
     area_sum   |-> Some(Get(fl.area_sum, 0) + atom.flower.petal_area),
     area_max   |-> Some(Max(Get(fl.area_max, 0), atom.flower.petal_area))]

\* A merge that counts and accumulates but keeps the row's own verdict, band
\* and phase
MergeRowStale(r, atom, ck, now) ==
    [r EXCEPT
        !.crystal_key = ck,
        !.strength    = MergedStrength(@),
        !.first_seen  = MergedFirstSeen(@, now),
        !.last_seen   = MergedLastSeen(@, now),
        !.atom_id     = atom.atom_id,
        !.dna         = atom.dna,
        !.dna_key     = atom.dna_key,
        !.kind        = atom.kind,
        !.version     = atom.version,
        !.context     = MergeContext(@, atom.context),
        !.metrics     = atom.metrics,
        !.baseline    = atom.baseline,
        !.flower      = MergedFlower(@, atom)]

\* store.py 113-158: the row r after the merge of atom into it
MergeRow(r, atom, ck, now) ==
    [r EXCEPT
        !.crystal_key = ck,
        !.strength    = MergedStrength(@),
        !.first_seen  = MergedFirstSeen(@, now),
        !.last_seen   = MergedLastSeen(@, now),
        !.atom_id     = atom.atom_id,
        !.verdict     = atom.verdict,
        !.band        = atom.band,
        !.phase_dir   = atom.phase_dir,
        !.phase_state = atom.phase_state,
        !.dna         = atom.dna,
        !.dna_key     = atom.dna_key,
        !.kind        = atom.kind,
        !.version     = atom.version,
        !.context     = MergeContext(@, atom.context),
        !.metrics     = atom.metrics,
        !.baseline    = atom.baseline,
        !.flower      = MergedFlower(@, atom)]

\* A search that starts at the second row
FindRowFromSecond(rows, ck) ==
    LET hits == {i \in 2..Len(rows) : IsDict(rows[i]) /\ rows[i].row.crystal_key = ck}
    IN  IF hits = {} THEN 0 ELSE CHOOSE i \in hits : \A j \in hits : i <= j

\* store.py 82-86: the index of the first row with the key, 0 for None; the
\* loop calls r.get on every row up to it, which raises on a row that is no dict
FindRow(rows, ck) ==
    LET hits == {i \in 1..Len(rows) : IsDict(rows[i]) /\ rows[i].row.crystal_key = ck}
    IN  IF hits = {} THEN 0 ELSE CHOOSE i \in hits : \A j \in hits : i <= j

FindRaises(rows, idx) ==
    \E i \in 1..Len(rows) : ~IsDict(rows[i]) /\ (idx = 0 \/ i < idx)

upsert(atom, f, now) ==
    LET rows == _read_all(f)
        ck   == CrystalOf(atom)
        idx  == FindRow(rows, ck)
    IN  IF FindRaises(rows, idx) THEN Outcome(f, atom, None, TRUE, idx)
        ELSE IF idx = 0
        THEN LET d == InsertRow(atom, ck, now)
             IN  Outcome(_write_all(Append(rows, RowLine(d))), d, Some(from_dict(d)), FALSE, idx)
        ELSE LET r == MergeRow(rows[idx].row, atom, ck, now)
             IN  Outcome(_write_all([rows EXCEPT ![idx] = RowLine(r)]), atom,
                         Some(from_dict(r)), FALSE, idx)

\* open(path, "a"): the line is added to whatever the file holds
append(atom, f) ==
    Outcome([exists |-> TRUE, lines |-> Append(f.lines, RowLine(atom))], atom,
            Some(atom), FALSE, 0)

---------------------------------------------------------------------------
(* memory/store.py: query and stats *)

\* Query(limit=50)
DefaultLimit == 50

Query(verdict, band_min, band_max, phase_state, dna_contains, dna_key, crystal_key, kind, min_strength, limit) ==
    [verdict |-> verdict, band_min |-> band_min, band_max |-> band_max,
     phase_state |-> phase_state, dna_contains |-> dna_contains, dna_key |-> dna_key,
     crystal_key |-> crystal_key, kind |-> kind, min_strength |-> min_strength,
     limit |-> limit]

\* str(dna): the words of the signature joined by single spaces
RECURSIVE Flat(_)
Flat(words) ==
    IF words = <<>> THEN <<>>
    ELSE IF Len(words) = 1 THEN words[1]
    ELSE words[1] \o <<" ">> \o Flat(Tail(words))

\* a in b, on strings
IsInfix(a, b) ==
    \E i \in 0..(Len(b) - Len(a)) : SubSeq(b, i + 1, i + Len(a)) = a

\* store.py 166-186: ok(r) for a row that is a dict
ok(q, r) ==
    /\ OrStr(q.verdict, "") /= "" => Upper(r.verdict) = Upper(q.verdict[1])
    /\ IsSome(q.band_min) => r.band >= q.band_min[1]
    /\ IsSome(q.band_max) => r.band <= q.band_max[1]
    /\ IsSome(q.phase_state) => r.phase_state = q.phase_state[1]
    /\ OrStr(q.kind, "") /= "" => r.kind = q.kind[1]
    /\ Get(q.dna_key, <<>>) /= <<>> => r.dna_key = q.dna_key[1]
    /\ IsSome(q.crystal_key) => r.crystal_key = q.crystal_key[1]
    /\ Get(q.dna_contains, <<>>) /= <<>> => IsInfix(q.dna_contains[1], Flat(r.dna))
    /\ IsSome(q.min_strength) => (IF r.strength = 0 THEN 1 ELSE r.strength) >= q.min_strength[1]

\* store.py 190-194: the sort key of a row
SortKey(r) ==
    <<IF r.strength = 0 THEN 1 ELSE r.strength,
      Get(r.flower.area_sum, 0),
      r.last_seen>>

KeyLess(a, b) ==
    \/ a[1] < b[1]
    \/ a[1] = b[1] /\ a[2] < b[2]
    \/ a[1] = b[1] /\ a[2] = b[2] /\ a[3] < b[3]

\* list.sort(key=..., reverse=True): descending, rows of equal key keep their order
SortDesc(rows) ==
    LET Ins(sorted, x) ==
            LET n == Cardinality({i \in 1..Len(sorted) :
                                    ~KeyLess(SortKey(sorted[i].row), SortKey(x.row))})
            IN  SubSeq(sorted, 1, n) \o <<x>> \o SubSeq(sorted, n + 1, Len(sorted))
        F[i \in 0..Len(rows)] == IF i = 0 THEN <<>> ELSE Ins(F[i - 1], rows[i])
    IN  F[Len(rows)]

\* out[: int(q.limit or 50)]
Limited(out, limit) ==
    LET n == IF limit = 0 THEN DefaultLimit ELSE limit
    IN  IF n >= 0 THEN Take(out, n) ELSE Take(out, Len(out) + n)

Matching(rows, q) ==
    LET F[i \in 0..Len(rows)] ==
            IF i = 0 THEN <<>>
            ELSE IF ok(q, rows[i].row) THEN Append(F[i - 1], rows[i]) ELSE F[i - 1]
    IN  F[Len(rows)]

\* ok(r) calls r.get, which raises on a row that is no dict
query(q, f) ==
    LET rows == _read_all(f)
    IN  IF \E i \in 1..Len(rows) : ~IsDict(rows[i])
        THEN [raised |-> TRUE, out |-> <<>>]
        ELSE [raised |-> FALSE, out |-> Limited(SortDesc(Matching(rows, q)), q.limit)]

\* max(xs); max of an empty list raises ValueError
MaxOf(xs) == CHOOSE m \in {xs[i] : i \in 1..Len(xs)} : \A i \in 1..Len(xs) : xs[i] <= m

ZeroStats ==
    [count |-> 0, strength_sum |-> 0, strength_max |-> 0,
     flower_area_sum |-> 0, flower_area_max |-> 0]

\* store.py 204-218: the aggregates of a non-empty list of rows
StatsOf(rows) ==
    LET strengths == [i \in 1..Len(rows) |->
                        IF rows[i].row.strength = 0 THEN 1 ELSE rows[i].row.strength]
        area_sums == [i \in 1..Len(rows) |-> Get(rows[i].row.flower.area_sum, 0)]
        area_maxs == [i \in 1..Len(rows) |-> Get(rows[i].row.flower.area_max, 0)]
    IN  IF rows = <<>> \/ \E i \in 1..Len(rows) : ~IsDict(rows[i])
        THEN [raised |-> TRUE, out |-> ZeroStats]
        ELSE [raised |-> FALSE,
              out |-> [count |-> Len(rows),
                       strength_sum |-> SumSeq(strengths),
                       strength_max |-> MaxOf(strengths),
                       flower_area_sum |-> SumSeq(area_sums),
                       flower_area_max |-> MaxOf(area_maxs)]]

\* stats without the guard for no rows: max() of an empty list raises
statsNoGuard(f) == StatsOf(_read_all(f))

stats(f) ==
    LET rows == _read_all(f)
    IN  IF rows = <<>> THEN [raised |-> FALSE, out |-> ZeroStats] ELSE StatsOf(rows)

---------------------------------------------------------------------------
(* The reports recorded into the store *)

EmptyReport ==
    [kind |-> None, type |-> None, version |-> None, verdict |-> None, dna |-> None,
     band |-> None, baseline |-> None, metrics |-> None, metrics_last_window |-> None,
     metrics_prev_window |-> None, risk |-> None, flower_cycle |-> None,
     flower_points |-> None, structural_dna |-> None, warn_threshold |-> None,
     block_threshold |-> None]

DnaTag == <<"D", "N", "A", ":">>

Tok(letter, digit) == <<letter, digit>>

Pt(x, y) == [risk |-> Some(x), specH |-> Some(y)]

\* hfs_demo.py 372-392: the report of a run, verdict ALLOW; a square flower cycle
HfsAllow ==
    [EmptyReport EXCEPT
        !.kind = Some("HFS_NAVIGATOR_REPORT"), !.version = Some("0.1"),
        !.verdict = Some("ALLOW"),
        !.dna = Some(<<DnaTag, Tok("T", "1"), Tok("R", "2"), Tok("S", "3"), Tok("W", "0")>>),
        !.metrics_last_window = Some([NoMetrics EXCEPT !.risk = Some(1000000)]),
        !.baseline = Some([NoBaseline EXCEPT
            !.mu = Some(1000000), !.sigma = Some(200000),
            !.warn_threshold = Some(1400000), !.block_threshold = Some(1600000),
            !.last_risk = Some(1000000)]),
        !.flower_cycle = Some(<<Pt(0, 0), Pt(4, 0), Pt(4, 4), Pt(0, 4)>>)]

\* the same signature prefix T1 R2 S3 with verdict WARN and a triangular cycle
HfsWarn ==
    [HfsAllow EXCEPT
        !.verdict = Some("WARN"),
        !.dna = Some(<<DnaTag, Tok("T", "1"), Tok("R", "2"), Tok("S", "3"), Tok("W", "1")>>),
        !.metrics_last_window = Some([NoMetrics EXCEPT !.risk = Some(1500000)]),
        !.baseline = Some([NoBaseline EXCEPT
            !.mu = Some(1000000), !.sigma = Some(200000),
            !.warn_threshold = Some(1400000), !.block_threshold = Some(1600000),
            !.last_risk = Some(1500000)]),
        !.flower_cycle = Some(<<Pt(0, 0), Pt(6, 0), Pt(0, 2)>>)]

\* another signature, verdict BLOCK, no flower cycle
HfsBlock ==
    [HfsAllow EXCEPT
        !.verdict = Some("BLOCK"),
        !.dna = Some(<<DnaTag, Tok("T", "3"), Tok("R", "3"), Tok("S", "0"), Tok("M", "1")>>),
        !.metrics_last_window = Some([NoMetrics EXCEPT !.risk = Some(9000000)]),
        !.baseline = Some([NoBaseline EXCEPT
            !.mu = Some(1000000), !.sigma = Some(200000),
            !.warn_threshold = Some(1400000), !.block_threshold = Some(1600000),
            !.last_risk = Some(9000000)]),
        !.flower_cycle = None]

\* the report of a run whose warm-up windows all had risk 0 and whose last
\* window has risk 0.5: mu = sigma = 0, both thresholds 0, verdict BLOCK
HfsBlockFlat ==
    [HfsBlock EXCEPT
        !.metrics_last_window = Some([NoMetrics EXCEPT !.risk = Some(5000000)]),
        !.baseline = Some([NoBaseline EXCEPT
            !.mu = Some(0), !.sigma = Some(0),
            !.warn_threshold = Some(0), !.block_threshold = Some(0),
            !.last_risk = Some(5000000)])]

\* a report of another producer: no signature, an explicit band
GitReport ==
    [EmptyReport EXCEPT
        !.kind = Some("GITCUBE_REPORT"), !.verdict = Some("warn"), !.band = Some(2),
        !.metrics = Some([NoMetrics EXCEPT !.risk = Some(7000000), !.cusum = Some(600000)])]

\* The calls of the caller: a report with the context it is recorded under
StoreCalls ==
    {<<HfsAllow, [repo |-> Some("lab"), ref |-> None, note |-> Some("")]>>,
     <<HfsWarn, [repo |-> Some("fork"), ref |-> Some("PR#12"), note |-> None]>>,
     <<GitReport, [repo |-> None, ref |-> None, note |-> None]>>}

---------------------------------------------------------------------------
(* The store as a state machine: a caller that builds atoms from reports,  *)
(* holds one, and calls the store; the clock; and the file's environment.  *)

MaxClock == 2

MaxLines == 2

MaxStrength == 3

NoAtom == [none |-> TRUE]

storeVars == <<clock, file, atoms, last>>

atomVars == <<reps, built>>

pureVars == <<phase, nav, pts, area, mem, meta>>

\* The atoms the caller can build: from_report on each call's report and
\* context at each time of the clock
AtomTable ==
    [c \in StoreCalls, t \in 1..MaxClock |-> from_report(c[1], c[2], t)]

\* The crystal keys of the atoms the caller can build
StoreKeys == {CrystalOf(AtomTable[c, 1]) : c \in StoreCalls}

EmptyFile == [exists |-> TRUE, lines |-> <<>>]

\* time.time() is positive and does not run backwards; the constructor leaves
\* the path alone, which names no file or an empty one; no atom is held
InitStore ==
    /\ clock = 1
    /\ file \in {NoFile, EmptyFile}
    /\ atoms = NoAtom
    /\ last = [op |-> "none", n |-> 0, existed |-> FALSE, res |-> None,
               upserts |-> [k \in StoreKeys |-> 0],
               areas |-> [k \in StoreKeys |-> <<>>],
               writing |-> None]

Tick ==
    /\ clock < MaxClock
    /\ clock' = clock + 1
    /\ UNCHANGED <<file, atoms, last, atomVars, pureVars>>

\* atom = MemoryAtom.from_report(report, repo=..., ref=..., note=...), kept
Build(c) ==
    /\ atoms' = AtomTable[c, clock]
    /\ UNCHANGED <<clock, file, last, atomVars, pureVars>>

\* The rows an upsert of atom would leave stay within the model's bounds
UpsertInBounds(atom) ==
    LET rows == _read_all(file)
        idx  == FindRow(rows, CrystalOf(atom))
    IN  IF idx = 0 THEN Len(file.lines) < MaxLines
        ELSE rows[idx].row.strength < MaxStrength

\* store.upsert(atom) is called now and leaves the file as the call leaves it
UpsertCall(atom) ==
    /\ UpsertInBounds(atom)
    /\ file' = upsert(atom, file, clock).file
    /\ last' = [last EXCEPT
                    !.upserts[CrystalOf(atom)] =
                        IF upsert(atom, file, clock).raised THEN @ ELSE @ + 1,
                    !.areas[CrystalOf(atom)] =
                        IF upsert(atom, file, clock).raised THEN @
                        ELSE Append(@, atom.flower.petal_area)]
    /\ UNCHANGED <<clock, atomVars, pureVars>>

\* store.upsert(atom) on the atom held; on the insert path the atom object is
\* the dict the store fills in
Upsert ==
    /\ atoms /= NoAtom
    /\ UpsertCall(atoms)
    /\ atoms' = upsert(atoms, file, clock).atom

\* store.upsert(MemoryAtom.from_report(report, ...)): the atom is built and
\* recorded at once, and dropped
Record(c) ==
    /\ UpsertCall(AtomTable[c, clock])
    /\ UNCHANGED atoms

\* store.append(atom) on the atom held
AppendAtom ==
    /\ atoms /= NoAtom
    /\ Len(file.lines) < MaxLines
    /\ file' = append(atoms, file).file
    /\ UNCHANGED <<clock, atoms, last, atomVars, pureVars>>

\* The filters the caller asks with
StoreQueries ==
    {Query(None, None, None, None, None, None, None, None, None, DefaultLimit),
     Query(Some("warn"), Some(1), Some(3), None, Some(<<"R", "2", " ", "S">>), None, None, Some("HFS_NAVIGATOR_REPORT"), None, 1)}

\* store.query(q)
RunQuery(q) ==
    /\ last' = [last EXCEPT !.op = "query", !.n = Len(_read_all(file)),
                             !.existed = file.exists, !.res = query(q, file)]
    /\ UNCHANGED <<clock, file, atoms, atomVars, pureVars>>

\* store.stats()
RunStats ==
    /\ last' = [last EXCEPT !.op = "stats", !.n = Len(_read_all(file)),
                             !.existed = file.exists, !.res = stats(file)]
    /\ UNCHANGED <<clock, file, atoms, atomVars, pureVars>>

\* The file's environment: it gains a line the store did not write
ExternalLine(tag) ==
    /\ Len(file.lines) < MaxLines
    /\ file' = [exists |-> TRUE, lines |-> Append(file.lines, [tag |-> tag, row |-> NoRow])]
    /\ UNCHANGED <<clock, atoms, last, atomVars, pureVars>>

\* The parts of the state a specification leaves alone
IdleStore ==
    /\ clock = 1
    /\ file = NoFile
    /\ atoms = NoAtom
    /\ last = [op |-> "none", n |-> 0, existed |-> FALSE, res |-> None,
               upserts |-> [k \in StoreKeys |-> 0],
               areas |-> [k \in StoreKeys |-> <<>>],
               writing |-> None]

IdleAtom == reps = <<>> /\ built = {}

IdlePhase == phase = [pc |-> "idle"]

IdleNav == nav = [pc |-> "idle", risks |-> <<>>]

IdleArea == pts = <<>> /\ area = [pc |-> "idle"]

IdleMeta == mem = <<>> /\ meta = [pc |-> "idle", report |-> EmptyReport]

Init == InitStore /\ IdleAtom /\ IdlePhase /\ IdleNav /\ IdleArea /\ IdleMeta

\* The caller and the store's mutating operations
NextStore ==
    \/ Tick
    \/ \E c \in StoreCalls : Build(c)
    \/ Upsert
    \/ AppendAtom

Next == NextStore

Spec == Init /\ [][Next]_vars

\* The store driven by upsert alone, from an empty store
NextUpsert ==
    \/ Tick
    \/ \E c \in StoreCalls : Build(c)
    \/ Upsert
    \/ \E c \in StoreCalls : Record(c)

SpecUpsert == Init /\ [][NextUpsert]_vars

\* The store read while reports are recorded and the file changes from outside
NextQuery ==
    \/ \E c \in StoreCalls : Record(c)
    \/ \E q \in StoreQueries : RunQuery(q)
    \/ RunStats
    \/ \E tag \in {"junk", "blank", "scalar"} : ExternalLine(tag)

SpecQuery == Init /\ [][NextQuery]_vars

\* store.py 50-53 stopped by a crash: open(path, "w") has emptied the file,
\* k whole lines have reached it and, when partial, a part of the next one
_write_allCrashed(rows, k, partial) ==
    [exists |-> TRUE,
     lines  |-> Take(rows, k) \o (IF partial THEN <<[tag |-> "junk", row |-> NoRow]>> ELSE <<>>)]

\* store.upsert(MemoryAtom.from_report(report, ...)) with the process killed
\* inside self._write_all(rows), at store.py 110 or 157
UpsertCrash(c, k, partial) ==
    LET call == upsert(AtomTable[c, clock], file, clock)
    IN  /\ UpsertInBounds(AtomTable[c, clock])
        /\ ~call.raised
        /\ k <= Len(call.file.lines)
        /\ partial => k < Len(call.file.lines)
        /\ file' = _write_allCrashed(call.file.lines, k, partial)
        /\ last' = [last EXCEPT !.op = "crash", !.n = k, !.existed = file.exists]
        /\ UNCHANGED <<clock, atoms, atomVars, pureVars>>

\* A process that was killed records nothing more
RecordAlive(c) ==
    /\ last.op /= "crash"
    /\ Record(c)

\* Reports recorded by a process that may be killed while it writes
NextCrash ==
    \/ Tick
    \/ \E c \in StoreCalls : RecordAlive(c)
    \/ \E c \in StoreCalls, k \in 0..MaxLines, partial \in BOOLEAN : UpsertCrash(c, k, partial)

SpecCrash == Init /\ [][NextCrash]_vars

---------------------------------------------------------------------------
(* The store's properties *)

\* The atoms a store call can be given now
UpsertArgs ==
    (IF atoms = NoAtom THEN {} ELSE {atoms}) \cup {AtomTable[c, clock] : c \in StoreCalls}

\* The rows of the file that are dicts
DictRows == {i \in 1..Len(_read_all(file)) : IsDict(_read_all(file)[i])}

\* C1: an upsert that finds a row with the atom's crystal_key leaves that row
\* with its strength raised by exactly 1, a last_seen no smaller than before
\* and a first_seen no larger than before.
C1_MergeKeepsCounting ==
    [][\A a \in UpsertArgs :
          LET call == upsert(a, file, clock)
          IN  (UpsertCall(a) /\ ~call.raised /\ call.idx > 0) =>
                  LET old == _read_all(file)[call.idx].row
                      new == _read_all(file')[call.idx].row
                  IN  /\ new.strength = old.strength + 1
                      /\ new.last_seen >= old.last_seen
                      /\ new.first_seen <= old.first_seen]_vars

\* A row merged into at a later time than it was first seen
C1_Witness ==
    \E i \in DictRows :
        LET r == _read_all(file)[i].row
        IN  r.strength >= 2 /\ r.last_seen > r.first_seen

\* C2: in a store driven by upsert alone from empty, every upserted
\* crystal_key has exactly one row, no other row exists, and the row's
\* strength is the number of upserts made with its key (1 after the first).
C2_OneRowPerKey ==
    LET rows == _read_all(file)
    IN  /\ \A i \in 1..Len(rows) : IsDict(rows[i])
        /\ \A k \in StoreKeys :
              LET at == {i \in 1..Len(rows) : rows[i].row.crystal_key = k}
              IN  /\ Cardinality(at) = IF last.upserts[k] > 0 THEN 1 ELSE 0
                  /\ \A i \in at : rows[i].row.strength = last.upserts[k]
        /\ \A i \in 1..Len(rows) : rows[i].row.crystal_key \in StoreKeys

\* Two keys in the store, one of them upserted more than once
C2_Witness ==
    /\ Len(_read_all(file)) = 2
    /\ \E k \in StoreKeys : last.upserts[k] >= 2
    /\ \E k \in StoreKeys : last.upserts[k] = 1

\* Every filter a Query can carry, each field absent or set
AllQueries ==
    {Query(v, lo, hi, ps, dc, None, None, kd, ms, lim) :
        v \in {None, Some("ALLOW")}, lo \in {None, Some(1)}, hi \in {None, Some(7)},
        ps \in {None, Some(1)}, dc \in {None, Some(<<"T">>)},
        kd \in {None, Some("HFS_NAVIGATOR_REPORT")}, ms \in {None, Some(1)},
        lim \in {0, DefaultLimit}}

\* C10: on a store whose file is missing or holds no rows, query returns the
\* empty list for every filter and stats returns the zero statistics, and
\* neither raises.
C10_EmptyStoreReads ==
    /\ (last.op = "query" /\ last.n = 0) => last.res = [raised |-> FALSE, out |-> <<>>]
    /\ (last.op = "stats" /\ last.n = 0) => last.res = [raised |-> FALSE, out |-> ZeroStats]
    /\ _read_all(file) = <<>> =>
          /\ \A q \in AllQueries : query(q, file) = [raised |-> FALSE, out |-> <<>>]
          /\ stats(file) = [raised |-> FALSE, out |-> ZeroStats]

\* stats was called on a file that exists and holds no row, only other lines
C10_Witness ==
    /\ last.op = "stats"
    /\ last.n = 0
    /\ last.existed
    /\ file.lines /= <<>>
    /\ _read_all(file) = <<>>

---------------------------------------------------------------------------
(* memory/atom.py: phase_state_from on any band and direction *)

\* How far outside 1..7 and 0..5 the arguments range
PhaseSlack == 2

\* phase_state_from(band, phase_dir) is called and its value kept
PhaseCall(band, phase_dir) ==
    /\ phase' = [pc |-> "done", band |-> band, phase_dir |-> phase_dir,
                 state |-> phase_state_from(band, phase_dir)]
    /\ UNCHANGED <<storeVars, atomVars, nav, pts, area, mem, meta>>

NextPhase ==
    \E band \in (1 - PhaseSlack)..(7 + PhaseSlack),
       phase_dir \in (0 - PhaseSlack)..(5 + PhaseSlack) : PhaseCall(band, phase_dir)

PhaseInit ==
    IdleStore /\ IdleAtom /\ IdlePhase /\ IdleNav /\ IdleArea /\ IdleMeta

SpecPhase == PhaseInit /\ [][NextPhase]_vars

\* C5: for band in 1..7 and direction in 0..5 the phase state is
\* (band-1)*6 + direction + 1, lies in 1..42, is given by no other pair of
\* that range, and yields the pair back as band = (state-1) div 6 + 1 and
\* direction = (state-1) mod 6.
C5_PhaseStateBijection ==
    (phase.pc = "done" /\ phase.band \in 1..7 /\ phase.phase_dir \in 0..5) =>
        /\ phase.state = (phase.band - 1) * 6 + phase.phase_dir + 1
        /\ phase.state \in 1..42
        /\ \A b \in 1..7, d \in 0..5 :
              phase_state_from(b, d) = phase.state => b = phase.band /\ d = phase.phase_dir
        /\ phase.band = ((phase.state - 1) \div 6) + 1
        /\ phase.phase_dir = (phase.state - 1) % 6
        /\ {phase_state_from(b, d) : b \in 1..7, d \in 0..5} = 1..42

\* The last state of the table, from the last band and the last direction
C5_Witness ==
    phase.pc = "done" /\ phase.band = 7 /\ phase.phase_dir = 5 /\ phase.state = 42

---------------------------------------------------------------------------
(* memory/atom.py and memory/flower.py: the area of any point list.  The     *)
(* coordinates are whole numbers, on which the float arithmetic of the code  *)
(* is exact.                                                                 *)

MaxCoord == 2

Grid == (0..MaxCoord) \X (0..MaxCoord)

\* Every list of up to four points, the corners of a square
PointLists == UNION {[1..n -> Grid] : n \in 0..4}

InitArea == pts \in PointLists /\ area = [pc |-> "idle"]

\* polygon_area(points) and shoelace_area(points) are called on the list
Measure ==
    /\ area.pc = "idle"
    /\ area' = [pc |-> "done", polygon |-> polygon_area(pts), shoelace |-> shoelace_area(pts)]
    /\ UNCHANGED <<storeVars, atomVars, phase, nav, pts, mem, meta>>

NextArea == Measure

AreaInit ==
    IdleStore /\ IdleAtom /\ IdlePhase /\ IdleNav /\ InitArea /\ IdleMeta

SpecArea == AreaInit /\ [][NextArea]_vars

\* All the points lie on one line (or are one point)
Collinear(points) ==
    \A i, j, k \in 1..Len(points) :
        (points[j][1] - points[i][1]) * (points[k][2] - points[i][2])
            = (points[k][1] - points[i][1]) * (points[j][2] - points[i][2])

\* The corners of the axis-aligned square of side s at (x, y), counter-clockwise
Corners(x, y, s) == <<<<x, y>>, <<x + s, y>>, <<x + s, y + s>>, <<x, y + s>>>>

\* points lists the corners of such a square in boundary order: from any
\* corner, in either direction
IsSquare(points, s) ==
    /\ Len(points) = 4
    /\ \E x, y \in 0..MaxCoord, r \in 0..3, back \in BOOLEAN :
          LET c == Corners(x, y, s)
          IN  \A i \in 1..4 :
                points[i] = c[((IF back THEN r + 4 - i ELSE r + i) % 4) + 1]

\* C9: polygon_area and shoelace_area are 0 on every list of at most 2 points
\* and on every list of collinear points, and s*s on the corners of an
\* axis-aligned square of side s in boundary order (areas in half units).
C9_AreaOfDegenerateAndSquare ==
    area.pc = "done" =>
        /\ Len(pts) <= 2 => area.polygon = 0 /\ area.shoelace = 0
        /\ Collinear(pts) => area.polygon = 0 /\ area.shoelace = 0
        /\ \A s \in 1..MaxCoord :
              IsSquare(pts, s) => area.polygon = 2 * s * s /\ area.shoelace = 2 * s * s

\* The square of side 2 walked clockwise has been measured
C9_Witness ==
    /\ area.pc = "done"
    /\ pts = <<<<0, 0>>, <<0, 2>>, <<2, 2>>, <<2, 0>>>>
    /\ area.polygon = 8

---------------------------------------------------------------------------
(* hfs/hfs_demo.py: the navigator.  Risks are whole numbers of a unit; the   *)
(* mean is kept as the fraction <<sum, n>> and the deviation by its square,  *)
(* the fraction <<n * sum of squares - sum^2, n * max(1, n - 1)>>, so that   *)
(* no root or quotient is rounded.                                           *)

MaxRisk == 3

MaxWindows == 4

\* hfs_demo.py 35-40: (m, sqrt(v)), as <<sum, n>> and v as a fraction
mean_std(xs) ==
    IF xs = <<>> THEN [mu |-> <<0, 1>>, sigma2 |-> <<0, 1>>]
    ELSE LET n  == Len(xs)
             S  == SumSeq(xs)
             SS == SumSeq([i \in 1..n |-> xs[i] * xs[i]])
         IN  [mu |-> <<S, n>>, sigma2 |-> <<n * SS - S * S, n * Max(1, n - 1)>>]

\* x > mu + k * sigma
Above(x, ms, k) ==
    LET lhs == ms.mu[2] * x - ms.mu[1]
    IN  /\ lhs > 0
        /\ lhs * lhs * ms.sigma2[2] > k * k * ms.sigma2[1] * ms.mu[2] * ms.mu[2]

\* mu + k * sigma, kept by its parts
Threshold(ms, k) == [mu |-> ms.mu, k |-> k, sigma2 |-> ms.sigma2]

\* x >= mu + k * sigma
AtOrAbove(x, ms, k) ==
    LET lhs == ms.mu[2] * x - ms.mu[1]
    IN  /\ lhs >= 0
        /\ lhs * lhs * ms.sigma2[2] >= k * k * ms.sigma2[1] * ms.mu[2] * ms.mu[2]

\* A classifier that counts a value on the threshold as over it
navigator_verdictInclusive(risks) ==
    IF risks = <<>>
    THEN [verdict |-> "ALLOW", mu |-> <<0, 1>>, sigma2 |-> <<0, 1>>,
          warn |-> Threshold(mean_std(<<>>), 2), block |-> Threshold(mean_std(<<>>), 3),
          last_risk |-> None, warm |-> 0]
    ELSE LET n    == Len(risks)
             warm == Max(2, (6 * n) \div 10)
             base == Take(risks, warm)
             ms   == mean_std(base)
             last_risk == risks[n]
         IN  [verdict |-> IF AtOrAbove(last_risk, ms, 3) THEN "BLOCK"
                          ELSE IF AtOrAbove(last_risk, ms, 2) THEN "WARN" ELSE "ALLOW",
              mu |-> ms.mu, sigma2 |-> ms.sigma2,
              warn |-> Threshold(ms, 2), block |-> Threshold(ms, 3),
              last_risk |-> Some(last_risk), warm |-> Len(base)]

\* A classifier whose baseline is taken over the whole series
navigator_verdictWholeSeries(risks) ==
    IF risks = <<>>
    THEN [verdict |-> "ALLOW", mu |-> <<0, 1>>, sigma2 |-> <<0, 1>>,
          warn |-> Threshold(mean_std(<<>>), 2), block |-> Threshold(mean_std(<<>>), 3),
          last_risk |-> None, warm |-> 0]
    ELSE LET n    == Len(risks)
             base == risks
             ms   == mean_std(base)
             last_risk == risks[n]
         IN  [verdict |-> IF Above(last_risk, ms, 3) THEN "BLOCK"
                          ELSE IF Above(last_risk, ms, 2) THEN "WARN" ELSE "ALLOW",
              mu |-> ms.mu, sigma2 |-> ms.sigma2,
              warn |-> Threshold(ms, 2), block |-> Threshold(ms, 3),
              last_risk |-> Some(last_risk), warm |-> Len(base)]

\* hfs_demo.py 315-340; warm = max(2, int(0.60 * n)); the record also keeps
\* the length of the slice risks[:warm]
navigator_verdict(risks) ==
    IF risks = <<>>
    THEN [verdict |-> "ALLOW", mu |-> <<0, 1>>, sigma2 |-> <<0, 1>>,
          warn |-> Threshold(mean_std(<<>>), 2), block |-> Threshold(mean_std(<<>>), 3),
          last_risk |-> None, warm |-> 0]
    ELSE LET n    == Len(risks)
             warm == Max(2, (6 * n) \div 10)
             base == Take(risks, warm)
             ms   == mean_std(base)
             last_risk == risks[n]
         IN  [verdict |-> IF Above(last_risk, ms, 3) THEN "BLOCK"
                          ELSE IF Above(last_risk, ms, 2) THEN "WARN" ELSE "ALLOW",
              mu |-> ms.mu, sigma2 |-> ms.sigma2,
              warn |-> Threshold(ms, 2), block |-> Threshold(ms, 3),
              last_risk |-> Some(last_risk), warm |-> Len(base)]

\* Runs of ten windows: a warm-up that alternates between two risks, then a
\* third risk held to the end
DriftSeries ==
    {[i \in 1..10 |-> IF i > 6 THEN c ELSE IF i % 2 = 1 THEN a ELSE b] :
        a \in 0..MaxRisk, b \in 0..MaxRisk, c \in 0..MaxRisk}

RiskSeries == UNION {[1..n -> 0..MaxRisk] : n \in 0..MaxWindows} \cup DriftSeries

InitNav == nav \in {[pc |-> "idle", risks |-> r] : r \in RiskSeries}

\* base = navigator_verdict(risks)
Classify ==
    /\ nav.pc = "idle"
    /\ nav' = [pc |-> "done", risks |-> nav.risks, base |-> navigator_verdict(nav.risks)]
    /\ UNCHANGED <<storeVars, atomVars, phase, pts, area, mem, meta>>

NextNav == Classify

NavInit ==
    IdleStore /\ IdleAtom /\ IdlePhase /\ InitNav /\ IdleArea /\ IdleMeta

SpecNav == NavInit /\ [][NextNav]_vars

\* The fraction q is the whole number x
FracIs(q, x) == q[1] = x * q[2]

\* The threshold mu + k * sigma is the whole number x, for a sigma of 0
ThresholdIs(t, x) == t.sigma2[1] = 0 /\ FracIs(t.mu, x)

\* C6 as stated: on every risk series with fewer than 2 points the verdict is
\* ALLOW and the baseline is zero: mu = 0, sigma = 0, warn = 0, block = 0.
C6_ZeroBaselineBelowTwo ==
    (nav.pc = "done" /\ Len(nav.risks) < 2) =>
        /\ nav.base.verdict = "ALLOW"
        /\ FracIs(nav.base.mu, 0)
        /\ nav.base.sigma2[1] = 0
        /\ ThresholdIs(nav.base.warn, 0)
        /\ ThresholdIs(nav.base.block, 0)

\* C6 amended: on every risk series with fewer than 2 points the verdict is
\* ALLOW, sigma = 0 and warn = block = mu, where mu is 0 for the empty series
\* and the single value of a series of one.
C6_FlatBaselineBelowTwo ==
    (nav.pc = "done" /\ Len(nav.risks) < 2) =>
        LET m == IF nav.risks = <<>> THEN 0 ELSE nav.risks[1]
        IN  /\ nav.base.verdict = "ALLOW"
            /\ FracIs(nav.base.mu, m)
            /\ nav.base.sigma2[1] = 0
            /\ ThresholdIs(nav.base.warn, m)
            /\ ThresholdIs(nav.base.block, m)

\* A series of one non-zero value has been classified
C6_Witness ==
    /\ nav.pc = "done"
    /\ nav.risks = <<2>>
    /\ nav.base.verdict = "ALLOW"
    /\ FracIs(nav.base.mu, 2)

\* The drift alarm of the signal engine, with the risks counted in tenths:
\* a one-sided cumulative sum of risk - mu - k over the series, floored at 0,
\* with k = 0.02; it fires once the sum exceeds h = 0.15 and needs 10 points.
\* mu is the baseline mean <<S, w>>; the sum is kept in units of 0.01 / w.
DriftAlarm(risks) ==
    LET n  == Len(risks)
        mu == navigator_verdict(risks).mu
        F[i \in 0..n] ==
            IF i = 0 THEN 0
            ELSE Max(0, F[i - 1] + mu[2] * (10 * risks[i] - 2) - 10 * mu[1])
    IN  n >= 10 /\ \E i \in 1..n : F[i] > 15 * mu[2]

\* The class of the last risk against the thresholds of a result
Classified(risks, base) ==
    LET ms == [mu |-> base.mu, sigma2 |-> base.sigma2]
    IN  IF risks = <<>> THEN "ALLOW"
        ELSE IF Above(risks[Len(risks)], ms, 3) THEN "BLOCK"
        ELSE IF Above(risks[Len(risks)], ms, 2) THEN "WARN" ELSE "ALLOW"

\* C15: the verdict is WARN when the drift alarm fired over the series and the
\* last risk classifies as ALLOW, and is the class of the last risk otherwise:
\* the alarm lowers no verdict and yields no BLOCK.
C15_AlarmEscalatesAllow ==
    nav.pc = "done" =>
        LET class == Classified(nav.risks, nav.base)
        IN  nav.base.verdict =
                IF DriftAlarm(nav.risks) /\ class = "ALLOW" THEN "WARN" ELSE class

\* C16 as stated: for a series of n >= 2 windows the baseline is that of a
\* prefix of at least 2 points and at least 60% of the n windows.
C16_WarmAtLeastSixty ==
    (nav.pc = "done" /\ Len(nav.risks) >= 2) =>
        LET n == Len(nav.risks)
            k == nav.base.warm
        IN  /\ k \in 2..n
            /\ 10 * k >= 6 * n
            /\ nav.base.mu = mean_std(Take(nav.risks, k)).mu
            /\ nav.base.sigma2 = mean_std(Take(nav.risks, k)).sigma2

\* C16 amended: for a series of n >= 2 windows the baseline is that of the
\* prefix of max(2, floor(0.6 n)) windows: at least 2 points, more than
\* 0.6 n - 1 of them, and beyond 2 points at most 60% of the n windows.
C16_WarmFloorSixty ==
    (nav.pc = "done" /\ Len(nav.risks) >= 2) =>
        LET n == Len(nav.risks)
            k == nav.base.warm
        IN  /\ k \in 2..n
            /\ 10 * k > 6 * n - 10
            /\ k = 2 \/ 10 * k <= 6 * n
            /\ nav.base.mu = mean_std(Take(nav.risks, k)).mu
            /\ nav.base.sigma2 = mean_std(Take(nav.risks, k)).sigma2

\* Four windows were classified on a baseline of the first two, whose mean is
\* not that of the four
C16_Witness ==
    /\ nav.pc = "done"
    /\ Len(nav.risks) = 4
    /\ nav.base.warm = 2
    /\ nav.base.mu = <<nav.risks[1] + nav.risks[2], 2>>
    /\ 2 * SumSeq(nav.risks) /= 4 * (nav.risks[1] + nav.risks[2])

---------------------------------------------------------------------------
(* memory/meta.py and hfs/ai_validator_hfs.py: meta-control.  A memory item  *)
(* is a row as the two functions read it: kind, verdict, band and dna.       *)
(* Weights count in units of 0.005; a quotient is kept as <<num, den>> and   *)
(* a threshold times a factor as the pair of both, so nothing is rounded.    *)

\* dna.replace("DNA:", "").strip().split(): the words without the tag
WithoutTag(words) ==
    LET Strip(w) == IF Len(w) >= 4 /\ SubSeq(w, 1, 4) = DnaTag
                    THEN SubSeq(w, 5, Len(w)) ELSE w
        F[i \in 0..Len(words)] ==
            IF i = 0 THEN <<>>
            ELSE IF Strip(words[i]) = <<>> THEN F[i - 1]
            ELSE Append(F[i - 1], Strip(words[i]))
    IN  F[Len(words)]

\* meta.py 42-48: " ".join(parts[:3]), kept as the list of the parts
_dna_prefix(dna) == Take(WithoutTag(dna), 3)

\* A shrink of up to 40%: min(0.40, max(0.0, danger_ratio * 0.40))
ShrinkTwice(danger, support) ==
    IF danger > support THEN <<2, 5>> ELSE <<2 * Max(0, danger), 5 * support>>

\* meta.py 118-120: shrink = min(0.20, max(0.0, danger_ratio * 0.20))
Shrink(danger, support) ==
    IF danger > support THEN <<1, 5>> ELSE <<Max(0, danger), 5 * support>>

\* x * (1.0 - shrink)
Times(x, shrink) == [x |-> x, by |-> <<shrink[2] - shrink[1], shrink[2]>>]

\* meta.py 89-90: the atom counts when its band or its prefix is the report's
BandMatch(cur_band, a) == cur_band = None \/ a.band = cur_band

PrefixMatch(cur_prefix, a) == cur_prefix = <<>> \/ _dna_prefix(Get(a.dna, <<>>)) = cur_prefix

\* meta.py 95-99: w = 1.0 (+ 0.5) (+ 0.5), in units of 0.005
Weight(cur_band, cur_prefix, a) ==
    200 + (IF BandMatch(cur_band, a) THEN 100 ELSE 0)
        + (IF PrefixMatch(cur_prefix, a) THEN 100 ELSE 0)

\* meta.py 70-75: the last lookback rows of the store file
Lookback(rows, lookback) == IF lookback = 0 THEN rows ELSE TakeLast(rows, lookback)

\* meta.py 92-93: the atoms that are not skipped
Counted(report, items) ==
    LET cur_dna == Get(IF IsSome(report.dna) THEN report.dna ELSE report.structural_dna, <<>>)
    IN  {i \in 1..Len(items) :
            BandMatch(report.band, items[i]) \/ PrefixMatch(_dna_prefix(cur_dna), items[i])}

\* meta.py 51: lookback = 200
lookback_default == 200

\* meta.py 51-132, the atoms being the rows read from store_path
adjust_thresholds(report, rows, lookback) ==
    LET baseline   == Get(report.baseline, NoBaseline)
        warn       == Get(baseline.warn_threshold, 0)
        block      == Get(baseline.block_threshold, 0)
        cur_dna    == Get(IF IsSome(report.dna) THEN report.dna ELSE report.structural_dna, <<>>)
        cur_prefix == _dna_prefix(cur_dna)
        items      == Lookback(rows, lookback)
        counted    == Counted(report, items)
        w          == [i \in 1..Len(items) |->
                         IF i \in counted THEN Weight(report.band, cur_prefix, items[i]) ELSE 0]
        support    == SumSeq(w)
        danger     == SumSeq([i \in 1..Len(items) |->
                         IF items[i].verdict = Some("BLOCK") THEN w[i]
                         ELSE IF items[i].verdict = Some("WARN") THEN (35 * w[i]) \div 100
                         ELSE 0])
    IN  IF support = 0
        THEN [warn_threshold |-> Times(warn, <<0, 1>>), block_threshold |-> Times(block, <<0, 1>>),
              danger_ratio |-> <<0, 1>>, shrink |-> <<0, 1>>, note |-> "no_history"]
        ELSE [warn_threshold |-> Times(warn, Shrink(danger, support)),
              block_threshold |-> Times(block, Shrink(danger, support)),
              danger_ratio |-> <<danger, support>>, shrink |-> Shrink(danger, support),
              note |-> "shrink"]

\* ai_validator_hfs.py 83-94: the tokens of a signature, a letter then digits
_dna_tokens(dna) ==
    LET words == WithoutTag(dna)
        IsTok(t) == Len(t) >= 2 /\ t[1] \in Letters /\ \A i \in 2..Len(t) : t[i] \in Digits
        F[i \in 0..Len(words)] ==
            IF i = 0 THEN <<>>
            ELSE IF IsTok(words[i]) THEN Append(F[i - 1], words[i]) ELSE F[i - 1]
    IN  F[Len(words)]

\* ai_validator_hfs.py 97-101: |a & b| / |a | b|, 0 for two empty lists
_jaccard(a, b) ==
    LET sa == {a[i] : i \in 1..Len(a)}
        sb == {b[i] : i \in 1..Len(b)}
    IN  IF sa = {} /\ sb = {} THEN <<0, 1>>
        ELSE <<Cardinality(sa \cap sb), Cardinality(sa \cup sb)>>

\* meta_adjust(k=25, min_matches=3, alpha_block=0.18, alpha_band=0.06,
\* max_penalty=0.25); the alphas and the penalty in units of 1e-7
meta_k == 25

min_matches == 3

alpha_block == 1800000

alpha_band == 600000

max_penalty == 2500000

RiskOne == 10000000

\* ai_validator_hfs.py 129-133: sim of an item, in units of 1/(20 * den):
\* the jaccard index, plus 0.05 when the verdicts are equal
Sim(report, it) ==
    LET j == _jaccard(_dna_tokens(Get(report.dna, <<>>)), _dna_tokens(Get(it.dna, <<>>)))
    IN  <<20 * j[1] + (IF it.verdict = report.verdict THEN j[2] ELSE 0), 20 * j[2]>>

\* ai_validator_hfs.py 121-136: scored, the (sim, item) pairs of the items of
\* the report's kind with sim > 0
Scored(report, memory_items) ==
    LET pair(it) == [sim |-> Sim(report, it), it |-> it]
        F[i \in 0..Len(memory_items)] ==
            IF i = 0 THEN <<>>
            ELSE IF /\ OrStr(report.kind, "") /= "" => memory_items[i].kind = report.kind
                    /\ Sim(report, memory_items[i])[1] > 0
                 THEN Append(F[i - 1], pair(memory_items[i]))
                 ELSE F[i - 1]
    IN  F[Len(memory_items)]

\* scored.sort(key=sim, reverse=True): descending, equal sims keep their
\* order; the place of a pair is one more than the number of pairs before it
SortBySim(scored) ==
    LET More(a, b) == a.sim[1] * b.sim[2] > b.sim[1] * a.sim[2]
        Same(a, b) == a.sim[1] * b.sim[2] = b.sim[1] * a.sim[2]
        place(i) == 1 + Cardinality({j \in 1..Len(scored) :
                            \/ More(scored[j], scored[i])
                            \/ Same(scored[j], scored[i]) /\ j < i})
    IN  [p \in 1..Len(scored) |-> scored[CHOOSE i \in 1..Len(scored) : place(i) = p]]

\* ai_validator_hfs.py 138-139: top = [it for _, it in scored[:k]]
Top(report, memory_items) ==
    CHOOSE top \in {[i \in 1..Min(meta_k, Len(s)) |-> SortBySim(s)[i].it] :
                        s \in {Scored(report, memory_items)}} : TRUE

\* _clamp(x, lo, hi) = max(lo, min(hi, x))
_clamp(x, lo, hi) == Max(lo, Min(hi, x))

\* ai_validator_hfs.py 140-191: (verdict_meta, risk_meta, meta_debug_dict)
\* from the items of top; penalty = alpha_block * n_block / matched
\* + alpha_band * (avg_band / 7.0), over the common denominator
\* 7 * matched * len(bands)
MetaResult(report, top) ==
    LET matched  == Len(top)
        baseline == Get(report.baseline, NoBaseline)
        warn_th  == OrNum(IF IsSome(report.warn_threshold) THEN report.warn_threshold
                          ELSE baseline.warn_threshold, 0)
        block_th == OrNum(IF IsSome(report.block_threshold) THEN report.block_threshold
                          ELSE baseline.block_threshold, RiskOne)
        base_verdict == Get(report.verdict, "ALLOW")
        risk     == OrNum(IF IsSome(report.risk) THEN report.risk ELSE baseline.last_risk, 0)
        n_block  == Cardinality({i \in 1..matched : top[i].verdict = Some("BLOCK")})
        banded   == {i \in 1..matched : IsSome(top[i].band)}
        bands    == SumSeq([i \in 1..matched |-> Get(top[i].band, 0)])
        nb       == Max(1, Cardinality(banded))
        den      == 7 * matched * nb
        penalty  == _clamp(7 * nb * alpha_block * n_block + alpha_band * bands * matched,
                           0, max_penalty * den)
        risk_meta == _clamp(risk * den + penalty, 0, RiskOne * den)
    IN  IF matched = 0
        THEN [verdict_meta |-> base_verdict, risk_meta |-> <<risk, 1>>, matched |-> 0,
              penalty |-> <<0, 1>>]
        ELSE [verdict_meta |-> IF matched < min_matches THEN base_verdict
                               ELSE IF risk_meta > block_th * den THEN "BLOCK"
                               ELSE IF risk_meta > warn_th * den THEN "WARN"
                               ELSE "ALLOW",
              risk_meta |-> <<risk_meta, den>>, matched |-> matched,
              penalty |-> <<penalty, den>>]

\* ai_validator_hfs.py 104-191
meta_adjust(report, memory_items) ==
    CHOOSE r \in {MetaResult(report, top) : top \in {Top(report, memory_items)}} : TRUE

\* The rows of the memory: every verdict, two bands, two signatures
MaxMem == 3

Item(verdict, band, dna) ==
    [kind |-> Some("HFS_NAVIGATOR_REPORT"), verdict |-> Some(verdict),
     band |-> Some(band), dna |-> Some(dna)]

MemItems ==
    {Item(v, b, d) : v \in {"ALLOW", "WARN", "BLOCK"}, b \in {2, 6},
                     d \in {HfsAllow.dna[1], HfsBlock.dna[1]}}

MemLists == UNION {[1..n -> MemItems] : n \in 0..MaxMem}

\* The reports judged: without a band; with band and signature; a BLOCK of
\* the other signature; a BLOCK over a flat baseline; a report of another
\* kind without signature
MetaReports ==
    {HfsWarn,
     [HfsAllow EXCEPT !.band = Some(2)],
     [HfsBlock EXCEPT !.band = Some(6)],
     HfsBlockFlat,
     GitReport}

InitMeta == mem \in MemLists /\ meta \in {[pc |-> "idle", report |-> r] : r \in MetaReports}

\* adj = adjust_thresholds(report, store_path)
AdjustThresholds ==
    /\ meta.pc = "idle"
    /\ meta' = [pc |-> "adjusted", report |-> meta.report,
                adj |-> adjust_thresholds(meta.report, mem, lookback_default)]
    /\ UNCHANGED <<storeVars, atomVars, phase, nav, pts, area, mem>>

\* verdict_meta, risk_meta, meta_info = meta_adjust(report, items)
MetaAdjust ==
    /\ meta.pc = "idle"
    /\ meta' = [pc |-> "meta_adjusted", report |-> meta.report,
                res |-> meta_adjust(meta.report, mem)]
    /\ UNCHANGED <<storeVars, atomVars, phase, nav, pts, area, mem>>

NextMeta ==
    \/ AdjustThresholds
    \/ MetaAdjust

MetaInit ==
    IdleStore /\ IdleAtom /\ IdlePhase /\ IdleNav /\ IdleArea /\ InitMeta

SpecMeta == MetaInit /\ [][NextMeta]_vars

\* The factor 1 - shrink, as a fraction
Factor(shrink) == <<shrink[2] - shrink[1], shrink[2]>>

\* The thresholds and the risk of the report, as the two functions read them
ReportWarn(report) == Get(Get(report.baseline, NoBaseline).warn_threshold, 0)

ReportBlock(report) == Get(Get(report.baseline, NoBaseline).block_threshold, 0)

ReportRisk(report) ==
    OrNum(IF IsSome(report.risk) THEN report.risk
          ELSE Get(report.baseline, NoBaseline).last_risk, 0)

\* C7: whatever the report and the memory, the factor by which
\* adjust_thresholds multiplies the warn and the block threshold lies in
\* [0.65, 1.0].
C7_FactorWithinBound ==
    meta.pc = "adjusted" =>
        LET f == Factor(meta.adj.shrink)
        IN  /\ meta.adj.warn_threshold = [x |-> ReportWarn(meta.report), by |-> f]
            /\ meta.adj.block_threshold = [x |-> ReportBlock(meta.report), by |-> f]
            /\ f[2] > 0
            /\ 100 * f[1] >= 65 * f[2]
            /\ f[1] <= f[2]

\* Thresholds above 0 were shrunk by the full 20% on a memory of several rows
C7_Witness ==
    /\ meta.pc = "adjusted"
    /\ Len(mem) >= 2
    /\ ReportWarn(meta.report) > 0
    /\ 5 * meta.adj.shrink[1] = meta.adj.shrink[2]

\* C8: with no matching atom in the memory, or fewer than the minimum of
\* matches, meta-control has no effect: the shrink is none, the thresholds
\* returned are the report's, and the risk and the verdict returned are the
\* report's.
C8_NoEffectBelowMinimum ==
    /\ (meta.pc = "adjusted"
            /\ Cardinality(Counted(meta.report, Lookback(mem, lookback_default))) < min_matches) =>
          /\ meta.adj.shrink[1] = 0
          /\ meta.adj.warn_threshold.by[1] = meta.adj.warn_threshold.by[2]
          /\ meta.adj.block_threshold.by[1] = meta.adj.block_threshold.by[2]
    /\ (meta.pc = "meta_adjusted" /\ meta.res.matched < min_matches) =>
          /\ meta.res.verdict_meta = Get(meta.report.verdict, "ALLOW")
          /\ meta.res.risk_meta[1] = ReportRisk(meta.report) * meta.res.risk_meta[2]

\* C18: meta-control changes nothing but the warn and the block threshold,
\* both multiplied by the one factor 1 - shrink; the risk the decision is
\* taken on is the report's risk, unchanged.
C18_OnlyThresholdsScaled ==
    /\ meta.pc = "adjusted" =>
          /\ meta.adj.warn_threshold =
                [x |-> ReportWarn(meta.report), by |-> Factor(meta.adj.shrink)]
          /\ meta.adj.block_threshold =
                [x |-> ReportBlock(meta.report), by |-> Factor(meta.adj.shrink)]
    /\ meta.pc = "meta_adjusted" =>
          meta.res.risk_meta[1] = ReportRisk(meta.report) * meta.res.risk_meta[2]

\* ALLOW < WARN < BLOCK
Severity(verdict) ==
    IF Upper(verdict) = "BLOCK" THEN 2 ELSE IF Upper(verdict) = "WARN" THEN 1 ELSE 0

\* C30: meta_adjust never de-escalates: for every report and every memory
\* the penalty lies in [0, max_penalty], risk_meta is at least the report's
\* risk, and verdict_meta is at least as severe as the report's verdict in
\* the order ALLOW < WARN < BLOCK.
C30_NeverDeescalates ==
    meta.pc = "meta_adjusted" =>
        /\ meta.res.penalty[1] >= 0
        /\ meta.res.penalty[1] <= max_penalty * meta.res.penalty[2]
        /\ meta.res.risk_meta[1] >= ReportRisk(meta.report) * meta.res.risk_meta[2]
        /\ Severity(meta.res.verdict_meta) >= Severity(Get(meta.report.verdict, "ALLOW"))

---------------------------------------------------------------------------
(* hfs/ai_validator_hfs.py: the validator's run, from the report to the exit *)

EXIT_ALLOW == 0

EXIT_WARN == 2

EXIT_BLOCK == 3

\* An exit that lets every verdict but WARN and BLOCK proceed
ExitCodeOpen(verdict) ==
    IF verdict = Some("WARN") THEN EXIT_WARN
    ELSE IF verdict = Some("BLOCK") THEN EXIT_BLOCK
    ELSE EXIT_ALLOW

\* ai_validator_hfs.py 265-280: sys.exit on the final verdict
ExitCode(verdict) ==
    IF verdict = Some("ALLOW") THEN EXIT_ALLOW
    ELSE IF verdict = Some("WARN") THEN EXIT_WARN
    ELSE IF verdict = Some("BLOCK") THEN EXIT_BLOCK
    ELSE EXIT_BLOCK

\* ai_validator_hfs.py 209-280: main on a report that was loaded; with --meta
\* and --store the verdict is the one meta_adjust returns
main(report, with_meta, items) ==
    LET verdict == IF with_meta THEN Some(meta_adjust(report, items).verdict_meta)
                   ELSE IF IsSome(report.verdict) THEN report.verdict
                   ELSE Some("UNKNOWN")
    IN  [verdict |-> verdict, code |-> ExitCode(verdict)]

\* The reports validated: the reports judged, one without a verdict and one
\* with a verdict that is none of the three
ValidatorReports ==
    MetaReports \cup {[HfsAllow EXCEPT !.verdict = None], [HfsAllow EXCEPT !.verdict = Some("allow")]}

\* The rows of the store read by load_memory_jsonl: two verdicts, two signatures
ValidatorLists ==
    UNION {[1..n -> {Item(v, 2, d) : v \in {"ALLOW", "BLOCK"},
                                     d \in {HfsAllow.dna[1], HfsBlock.dna[1]}}] : n \in 0..MaxMem}

InitValidator ==
    /\ mem \in ValidatorLists
    /\ meta \in {[pc |-> "idle", report |-> r] : r \in ValidatorReports}

\* load_report (36-46): the file is missing or is no json, and the run ends
LoadFails ==
    /\ meta.pc = "idle"
    /\ meta' = [pc |-> "exited", report |-> meta.report, loaded |-> FALSE,
                with_meta |-> FALSE, verdict |-> None, code |-> EXIT_BLOCK]
    /\ UNCHANGED <<storeVars, atomVars, phase, nav, pts, area, mem>>

\* The run on a report that loads
Validate(with_meta) ==
    /\ meta.pc = "idle"
    /\ meta' = [pc |-> "exited", report |-> meta.report, loaded |-> TRUE,
                with_meta |-> with_meta,
                verdict |-> main(meta.report, with_meta, mem).verdict,
                code |-> main(meta.report, with_meta, mem).code]
    /\ UNCHANGED <<storeVars, atomVars, phase, nav, pts, area, mem>>

NextValidator ==
    \/ LoadFails
    \/ \E with_meta \in BOOLEAN : Validate(with_meta)

ValidatorInit ==
    IdleStore /\ IdleAtom /\ IdlePhase /\ IdleNav /\ IdleArea /\ InitValidator

SpecValidator == ValidatorInit /\ [][NextValidator]_vars

\* C17: the exit code is 0 exactly when the final verdict is ALLOW, 2 exactly
\* when it is WARN, and 3 for BLOCK, for any other verdict and when no
\* verdict was read.
C17_ExitCodeOfVerdict ==
    meta.pc = "exited" =>
        /\ meta.code \in {0, 2, 3}
        /\ meta.code = 0 <=> meta.verdict = Some("ALLOW")
        /\ meta.code = 2 <=> meta.verdict = Some("WARN")
        /\ meta.code = 3 <=> meta.verdict \notin {Some("ALLOW"), Some("WARN")}
        /\ (~meta.loaded) => meta.code = 3

\* A report without a verdict was validated without meta-control: the final
\* verdict is none of the three and the run exits with 3
C17_Witness ==
    /\ meta.pc = "exited"
    /\ meta.loaded
    /\ ~meta.with_meta
    /\ meta.report.verdict = None
    /\ meta.verdict = Some("UNKNOWN")
    /\ meta.code = 3

---------------------------------------------------------------------------
(* memory/atom.py: the identity of the atoms built from two reports *)

MaxBuilt == 2

\* Reports that differ by noise below and above the sixth decimal of cusum
\* (units of 1e-7), and the reports of the store
CusumNoise == {-4, 0, 1, 4, 6}

AtomReports ==
    {[GitReport EXCEPT !.metrics = Some([NoMetrics EXCEPT !.risk = Some(7000000),
                                                           !.cusum = Some(c)])] :
        c \in CusumNoise}
    \cup {GitReport, HfsAllow, HfsWarn, HfsBlock, EmptyReport}

AtomContexts ==
    {[repo |-> None, ref |-> None, note |-> None],
     [repo |-> Some("lab"), ref |-> Some("PR#12"), note |-> Some("seen")]}

InitAtom == reps \in AtomReports \X AtomReports /\ built = {}

\* MemoryAtom.from_report(reps[i], repo=..., ref=..., note=...) at the time of
\* the clock; the atom is kept with the call that built it
BuildAtom(i, ctx) ==
    /\ Cardinality(built) < MaxBuilt
    /\ built' = built \cup {[rep |-> i, ctx |-> ctx, now |-> clock,
                              atom |-> from_report(reps[i], ctx, clock)]}
    /\ UNCHANGED <<storeVars, reps, phase, nav, pts, area, mem, meta>>

NextAtom ==
    \/ Tick
    \/ \E i \in 1..2, ctx \in AtomContexts : BuildAtom(i, ctx)

AtomInit ==
    IdleStore /\ InitAtom /\ IdlePhase /\ IdleNav /\ IdleArea /\ IdleMeta

SpecAtom == AtomInit /\ [][NextAtom]_vars

\* C3: two atoms built from the same report carry the same atom_id, whatever
\* the time of each call and whatever repo, ref and note were passed.
C3_IdIgnoresTimeAndContext ==
    \A a, b \in built :
        reps[a.rep] = reps[b.rep] => a.atom.atom_id = b.atom.atom_id

\* One report was built twice, at two times and under two contexts
C3_Witness ==
    \E a, b \in built :
        /\ a.rep = b.rep
        /\ a.atom.first_seen /= b.atom.first_seen
        /\ a.atom.context /= b.atom.context
        /\ a.atom.atom_id = b.atom.atom_id

\* The stable subset of an atom: the hashed fields, the quantized ones by
\* their numeric value
Num(q) == q.v

StableSubset(atom) ==
    LET id == compute_atom_id(atom.kind, atom.version, atom.verdict, atom.dna_key,
                              atom.band, atom.phase_state, atom.baseline,
                              atom.metrics.m, atom.flower)
    IN  <<id.kind, id.version, id.verdict, id.dna_key, id.band, id.phase_state,
          Num(id.baseline.mu), Num(id.baseline.sigma),
          Num(id.baseline.warn_threshold), Num(id.baseline.block_threshold),
          Num(id.metrics.risk), Num(id.metrics.specH), Num(id.metrics.cusum),
          Num(id.flower.petal_area)>>

\* C4: the atom_ids of the atoms built from two reports differ if and only if
\* the reports differ in a field of the stable subset; reports whose values
\* round to the same quantized values get the same atom_id.
C4_IdIffStableSubset ==
    \A a, b \in built :
        (a.atom.atom_id /= b.atom.atom_id) <=> (StableSubset(a.atom) /= StableSubset(b.atom))

\* C20: from_report builds no atom from a report that lacks kind, version,
\* verdict, the baseline object or the risk metric, or whose verdict is none
\* of ALLOW, WARN and BLOCK: the call raises instead.
C20_RejectsMalformed ==
    \A b \in built :
        LET report  == reps[b.rep]
            metrics == _pick_metrics(report)
        IN  /\ IsSome(report.kind)
            /\ IsSome(report.version)
            /\ IsSome(report.verdict)
            /\ Upper(report.verdict[1]) \in {"ALLOW", "WARN", "BLOCK"}
            /\ IsSome(report.baseline)
            /\ IsSome(metrics.risk) \/ IsSome(metrics.last_risk)

---------------------------------------------------------------------------
(* memory/cli.py: the record command *)

\* atom.py 214-241: the fields of MemoryAtom, none of which has a default
MemoryAtomFields ==
    {"kind", "version", "verdict", "dna", "dna_key", "band", "phase_dir", "phase_state",
     "baseline", "metrics", "flower", "crystal_key", "strength", "first_seen",
     "last_seen", "context", "atom_id"}

\* cli.py 42-119: MemoryAtom(kind=..., version=..., verdict=..., dna=...,
\* dna_key=..., band=...) raises TypeError when a field of the class is not
\* given; otherwise the atom holds the fields given
atom_from_report(report, ctx) ==
    LET given == {"kind", "version", "verdict", "dna", "dna_key", "band"}
        full  == from_report(report, ctx, 0)
    IN  IF MemoryAtomFields \ given /= {}
        THEN [raised |-> TRUE, atom |-> NoAtom]
        ELSE [raised |-> FALSE, atom |-> [k \in given |-> full[k]]]

\* cli.py 122-131: the atom is built and handed to MemoryStore.append
cmd_record(report, ctx, f) ==
    LET built_atom == atom_from_report(report, ctx)
    IN  IF built_atom.raised THEN Outcome(f, NoAtom, None, TRUE, 0)
        ELSE append(built_atom.atom, f)

\* python -m memory.cli record --report ... --store ...
CmdRecord(c) ==
    /\ Len(file.lines) < MaxLines
    /\ file' = cmd_record(c[1], c[2], file).file
    /\ last' = [last EXCEPT !.op = "record", !.n = Len(_read_all(file)),
                             !.existed = file.exists,
                             !.res = [raised |-> cmd_record(c[1], c[2], file).raised,
                                      out |-> <<>>]]
    /\ UNCHANGED <<clock, atoms, atomVars, pureVars>>

\* Reports recorded through the store's upsert and through the command
NextRecord ==
    \/ Tick
    \/ \E c \in StoreCalls : Record(c)
    \/ \E c \in StoreCalls : CmdRecord(c)

SpecRecord == Init /\ [][NextRecord]_vars

\* C19: the record command on a report whose crystal_key has a row in the
\* store adds no row and raises the strength of that row by 1.
C19_RecordMerges ==
    [][\A c \in StoreCalls :
          LET rows == _read_all(file)
              ck   == CrystalOf(AtomTable[c, clock])
              at   == {i \in 1..Len(rows) : IsDict(rows[i]) /\ rows[i].row.crystal_key = ck}
          IN  (CmdRecord(c) /\ at /= {}) =>
                  /\ Len(_read_all(file')) = Len(rows)
                  /\ \E i \in at :
                        _read_all(file')[i].row.strength = rows[i].row.strength + 1]_vars

---------------------------------------------------------------------------
(* The store under crashes and foreign lines *)

\* C11: an upsert cut short by a crash leaves the file holding either all the
\* rows it held before the call or all the rows the completed call would
\* leave, never fewer.
C11_CrashKeepsRows ==
    [][\A c \in StoreCalls, k \in 0..MaxLines, partial \in BOOLEAN :
          UpsertCrash(c, k, partial) =>
              _read_all(file') \in {_read_all(file),
                                    _read_all(upsert(AtomTable[c, clock], file, clock).file)}]_vars

\* The file without the lines that hold no row object
RowsOnly(f) == [exists |-> f.exists, lines |-> SelectSeq(f.lines, LAMBDA l : l.tag = "row")]

\* C12: whatever lines that are no json or no row object the file holds,
\* query, stats and upsert do not raise, and query and stats give what they
\* give on the file without those lines.
C12_CorruptLinesSkipped ==
    /\ last.op \in {"query", "stats"} => ~last.res.raised
    /\ \A q \in StoreQueries : query(q, file) = query(q, RowsOnly(file))
    /\ stats(file) = stats(RowsOnly(file))
    /\ \A c \in StoreCalls : ~upsert(AtomTable[c, clock], file, clock).raised

\* The lines of a file that are not blank
NonBlank(f) == SelectSeq(f.lines, LAMBDA l : l.tag /= "blank")

\* C13: no step of the store removes a line that is not blank: each is still
\* there at its place, at most one row is replaced by a row of the same
\* crystal_key, and at most one line is added, at the end.
C13_NothingRemoved ==
    [][LET old == NonBlank(file)
           new == NonBlank(file')
           changed == {i \in 1..Len(old) : i <= Len(new) /\ new[i] /= old[i]}
       IN  /\ Len(new) >= Len(old)
           /\ Cardinality(changed) <= 1
           /\ \A i \in changed :
                 /\ old[i].tag = "row"
                 /\ new[i].tag = "row"
                 /\ new[i].row.crystal_key = old[i].row.crystal_key]_vars

\* C14: for every query, the result holds rows that pass every filter set,
\* in descending order of (strength, flower.area_sum, last_seen), as many of
\* them as the limit allows and the greatest ones, and never more than the
\* limit.
C14_QueryFilterSortLimit ==
    \A q \in StoreQueries \cup AllQueries :
        LET res  == query(q, file)
            rows == _read_all(file)
            hits == {i \in 1..Len(rows) : IsDict(rows[i]) /\ ok(q, rows[i].row)}
            out  == res.out
        IN  ~res.raised =>
                /\ \A j \in 1..Len(out) : \E i \in hits : rows[i] = out[j]
                /\ Len(out) = Min(q.limit, Cardinality(hits))
                /\ \A j \in 1..(Len(out) - 1) :
                      ~KeyLess(SortKey(out[j].row), SortKey(out[j + 1].row))
                /\ \A i \in hits, j \in 1..Len(out) :
                      KeyLess(SortKey(out[j].row), SortKey(rows[i].row)) =>
                          \E m \in 1..Len(out) : out[m] = rows[i]

---------------------------------------------------------------------------
(* The merge of an upsert into the row it finds *)

\* C21: an upsert that merges into an existing row leaves the row's
\* first_seen at the minimum of the row's previous first_seen and the
\* first_seen of the incoming atom.
C21_FirstSeenMinimum ==
    [][\A a \in UpsertArgs :
          LET call == upsert(a, file, clock)
          IN  (UpsertCall(a) /\ ~call.raised /\ call.idx > 0) =>
                  LET old == _read_all(file)[call.idx].row
                      new == _read_all(file')[call.idx].row
                  IN  new.first_seen = Min(old.first_seen, a.first_seen)]_vars

\* C22: an upsert that merges into an existing row leaves the row's context
\* with the keys of the old and of the incoming context: every old key keeps
\* its old value, also when the incoming atom carries another value for it,
\* and every key only the incoming atom has is added with the incoming value.
C22_ContextUnionOldWins ==
    [][\A a \in UpsertArgs :
          LET call == upsert(a, file, clock)
          IN  (UpsertCall(a) /\ ~call.raised /\ call.idx > 0) =>
                  LET old == _read_all(file)[call.idx].row.context
                      new == _read_all(file')[call.idx].row.context
                  IN  /\ DOMAIN new = DOMAIN old \cup DOMAIN a.context
                      /\ \A k \in DOMAIN old : new[k] = old[k]
                      /\ \A k \in DOMAIN a.context \ DOMAIN old : new[k] = a.context[k]]_vars

\* A row first recorded for the repository "lab" that a merge of an atom
\* recorded for "fork" under "PR#12" has left with the old repo and the new ref
C22_Witness ==
    \E i \in DictRows :
        LET r == _read_all(file)[i].row
        IN  /\ r.strength >= 2
            /\ DOMAIN r.context = {"repo", "ref"}
            /\ r.context.repo = "lab"
            /\ r.context.ref = "PR#12"

\* C23: an upsert that merges into an existing row leaves the row's verdict,
\* band, phase_dir, phase_state, dna, metrics, baseline and atom_id equal to
\* those of the incoming atom, whatever the row held before, and returns an
\* atom that carries the values of the stored row.
C23_SnapshotReplaced ==
    [][\A a \in UpsertArgs :
          LET call == upsert(a, file, clock)
          IN  (UpsertCall(a) /\ ~call.raised /\ call.idx > 0) =>
                  LET new == _read_all(file')[call.idx].row
                  IN  /\ new.verdict = a.verdict
                      /\ new.band = a.band
                      /\ new.phase_dir = a.phase_dir
                      /\ new.phase_state = a.phase_state
                      /\ new.dna = a.dna
                      /\ new.metrics = a.metrics
                      /\ new.baseline = a.baseline
                      /\ new.atom_id = a.atom_id
                      /\ call.ret = Some(new)]_vars

\* A row first recorded with verdict ALLOW for the repository "lab" and then
\* merged with an atom of verdict WARN and band 3
C23_Witness ==
    \E i \in DictRows :
        LET r == _read_all(file)[i].row
        IN  /\ r.strength >= 2
            /\ "repo" \in DOMAIN r.context
            /\ r.context.repo = "lab"
            /\ r.verdict = "WARN"
            /\ r.band = 3
            /\ r.atom_id = StableId(HfsWarn)

\* C24: after any sequence of upserts on an initially empty store, each
\* row's flower.area_sum is the sum of the petal_area of all atoms upserted
\* under the row's crystal_key, its flower.area_max their maximum and its
\* flower.petal_area that of the most recent one; hence
\* petal_area <= area_max <= area_sum.
C24_FlowerAccumulates ==
    LET rows == _read_all(file)
    IN  \A i \in 1..Len(rows) :
            LET fl  == rows[i].row.flower
                got == last.areas[rows[i].row.crystal_key]
            IN  /\ got /= <<>>
                /\ fl.area_sum = Some(SumSeq(got))
                /\ fl.area_max = Some(MaxOf(got))
                /\ fl.petal_area = got[Len(got)]
                /\ fl.petal_area <= fl.area_max[1]
                /\ fl.area_max[1] <= fl.area_sum[1]

\* A row upserted with a larger petal first and a smaller one last
C24_Witness ==
    \E i \in DictRows :
        LET fl == _read_all(file)[i].row.flower
        IN  /\ 0 < fl.petal_area
            /\ fl.petal_area < fl.area_max[1]
            /\ fl.area_max[1] < fl.area_sum[1]

---------------------------------------------------------------------------
(* memory/atom.py: infer_phase_dir on reports around the gate.  Values count *)
(* 1e-7: the gate is 500000, the default instability 5000000.               *)

\* The previous window of the reports that carry one
PrevWindow ==
    [NoMetrics EXCEPT !.risk = Some(1500000), !.spectral_entropy = Some(5000000),
                      !.cusum = Some(100000)]

\* Reports whose risk and instability lie below, at and above the baseline's
\* and whose accumulator lies below, at and above the gate on either side,
\* with and without a previous window
DirReports ==
    {[EmptyReport EXCEPT
        !.metrics = Some([NoMetrics EXCEPT !.risk = Some(r), !.specH = Some(h),
                                           !.cusum = Some(c)]),
        !.baseline = Some([NoBaseline EXCEPT !.mu = Some(1000000), !.specH = Some(5000000)]),
        !.metrics_prev_window = p] :
        r \in {0, 1000000, 2000000}, h \in {4000000, 5000000, 6000000},
        c \in {-600000, -500000, -400000, 0, 400000, 500000, 600000},
        p \in {None, Some(PrevWindow)}}

\* phase_dir, deltas = infer_phase_dir(report), kept with the report
InferDir(report) ==
    /\ phase' = [pc |-> "dir", report |-> report,
                 dir |-> infer_phase_dir(report, cusum_gate)]
    /\ UNCHANGED <<storeVars, atomVars, nav, pts, area, mem, meta>>

NextDir == \E report \in DirReports : InferDir(report)

DirInit ==
    IdleStore /\ IdleAtom /\ IdlePhase /\ IdleNav /\ IdleArea /\ IdleMeta

SpecDir == DirInit /\ [][NextDir]_vars

\* The direction the signs of the risk and instability changes give
BySigns(d) ==
    IF d.d_risk >= 0 /\ d.d_specH >= 0 THEN 0
    ELSE IF d.d_risk >= 0 THEN 1
    ELSE IF d.d_specH >= 0 THEN 4
    ELSE 5

\* C25 as stated: the direction is in 0..5; when the absolute change of the
\* accumulator exceeds the gate it is 2 for a positive and 3 for a negative
\* change, whatever the other signs, and only when the change does not
\* exceed the gate is it chosen from the signs of d_risk and d_specH.
C25_GateExceeded ==
    phase.pc = "dir" =>
        LET d == Deltas(phase.report)
        IN  /\ phase.dir \in 0..5
            /\ Abs(d.d_cusum) > cusum_gate => phase.dir = IF d.d_cusum > 0 THEN 2 ELSE 3
            /\ Abs(d.d_cusum) <= cusum_gate => phase.dir = BySigns(d)

\* C25: the direction is in 0..5; when the absolute change of the
\* accumulator is at least the gate it is 2 for a positive and 3 for a
\* negative change, whatever the other signs, and only when the change is
\* below the gate is it chosen from the signs of d_risk and d_specH.
C25_GateReached ==
    phase.pc = "dir" =>
        LET d == Deltas(phase.report)
        IN  /\ phase.dir \in 0..5
            /\ Abs(d.d_cusum) >= cusum_gate => phase.dir = IF d.d_cusum > 0 THEN 2 ELSE 3
            /\ Abs(d.d_cusum) < cusum_gate => phase.dir = BySigns(d)

\* A change of exactly the gate, downwards, with risk and instability falling
C25_Witness ==
    /\ phase.pc = "dir"
    /\ Deltas(phase.report).d_cusum = 0 - cusum_gate
    /\ Deltas(phase.report).d_risk < 0
    /\ Deltas(phase.report).d_specH < 0
    /\ phase.dir = 3

---------------------------------------------------------------------------
(* memory/atom.py and memory/flower.py: the flower of a trajectory of any   *)
(* length, handed over as flower_cycle or as flower.points                  *)

\* The longest trajectory a report carries
MaxCycle == 8

\* flower_from_cycle(take=6)
take_default == 6

\* A trajectory of n points that does not close on itself
Walk(n, a, b) == [i \in 1..n |-> <<a * (i % 3), b * ((i * i) % 5)>>]

CycleLists == {Walk(n, a, b) : n \in 0..MaxCycle, a \in 0..MaxCoord, b \in 0..MaxCoord}

\* The report that carries the trajectory under the key
FlowerReport(points, key) ==
    IF key = "flower_cycle"
    THEN [EmptyReport EXCEPT
            !.flower_cycle = Some([i \in 1..Len(points) |-> Pt(points[i][1], points[i][2])])]
    ELSE [EmptyReport EXCEPT !.flower_points = Some(points)]

\* flower.py 45-71: the points up to take, and their area
flower_from_cycle(cycle, take) ==
    LET all == [i \in 1..Len(cycle) |-> <<Get(cycle[i].risk, 0), Get(cycle[i].specH, 0)>>]
        got == Take(all, Max(1, take))
    IN  [petal_area |-> shoelace_area(got), points |-> got]

InitFlower == pts \in CycleLists /\ area = [pc |-> "idle"]

\* MemoryAtom.from_report(report).flower for the report carrying pts
FlowerOfAtom(key) ==
    /\ area.pc = "idle"
    /\ area' = [pc |-> "atom", key |-> key,
                flower |-> from_report(FlowerReport(pts, key),
                                       [repo |-> None, ref |-> None, note |-> None],
                                       clock).flower]
    /\ UNCHANGED <<storeVars, atomVars, phase, nav, pts, mem, meta>>

\* flower_from_cycle(report["flower_cycle"])
FlowerOfCycle ==
    /\ area.pc = "idle"
    /\ area' = [pc |-> "util", key |-> "flower_cycle",
                flower |-> flower_from_cycle(FlowerReport(pts, "flower_cycle").flower_cycle[1],
                                             take_default)]
    /\ UNCHANGED <<storeVars, atomVars, phase, nav, pts, mem, meta>>

NextFlower ==
    \/ \E key \in {"flower_cycle", "flower_points"} : FlowerOfAtom(key)
    \/ FlowerOfCycle

FlowerInit ==
    IdleStore /\ IdleAtom /\ IdlePhase /\ IdleNav /\ InitFlower /\ IdleMeta

SpecFlower == FlowerInit /\ [][NextFlower]_vars

\* C26: the flower stored in an atom holds at most 6 points: for a report
\* whose flower_cycle or flower.points has more than 6 entries, the atom's
\* flower.points has at most 6 entries and petal_area is the area of those.
C26_AtMostSixPoints ==
    area.pc = "atom" =>
        /\ Len(area.flower.points) <= 6
        /\ area.flower.petal_area = polygon_area(area.flower.points)

---------------------------------------------------------------------------
(* The band and the phase of the atoms built and stored: reports with every *)
(* verdict and no band, and with a band inside and outside 1..7             *)

BandReports ==
    {HfsAllow, HfsWarn, [HfsWarn EXCEPT !.verdict = Some("BLOCK")]}
    \cup {[GitReport EXCEPT !.band = Some(b)] : b \in {-1, 0, 2, 9}}

\* atom = MemoryAtom.from_report(report), kept; the report is logged
BuildFrom(report) ==
    /\ atoms' = from_report(report, [repo |-> None, ref |-> None, note |-> None], clock)
    /\ last' = [last EXCEPT !.op = "build", !.res = Some(report)]
    /\ UNCHANGED <<clock, file, atomVars, pureVars>>

NextBand ==
    \/ \E report \in BandReports : BuildFrom(report)
    \/ Upsert

SpecBand == Init /\ [][NextBand]_vars

\* band, phase_dir and phase_state of an atom or a row agree
InPhase(a) ==
    /\ a.band \in 1..7
    /\ a.phase_dir \in 0..5
    /\ a.phase_state = (a.band - 1) * 6 + a.phase_dir + 1
    /\ a.phase_state \in 1..42

\* C27: every atom built by from_report, every atom upsert returns and every
\* row of the store after upserts of such atoms has band in 1..7, phase_dir
\* in 0..5 and phase_state = (band-1)*6 + phase_dir + 1 in 1..42; built from
\* a report with no band, the band is 1 for BLOCK, 3 for WARN and 6 otherwise.
C27_BandPhaseConsistent ==
    /\ atoms /= NoAtom =>
          /\ InPhase(atoms)
          /\ LET call == upsert(atoms, file, clock)
             IN  ~call.raised => InPhase(call.ret[1])
    /\ \A i \in DictRows : InPhase(_read_all(file)[i].row)
    /\ (last.op = "build" /\ last.res[1].band = None) =>
          atoms.band = (IF atoms.verdict = "BLOCK" THEN 1
                        ELSE IF atoms.verdict = "WARN" THEN 3 ELSE 6)

\* A row merged from an atom of verdict BLOCK and no band, and an atom held
\* that was built from a report with band 9
C27_Witness ==
    /\ last.op = "build"
    /\ last.res[1].band = Some(9)
    /\ atoms.band = 7
    /\ \E i \in DictRows :
          LET r == _read_all(file)[i].row
          IN  r.strength >= 2 /\ r.verdict = "BLOCK" /\ r.band = 1

---------------------------------------------------------------------------
(* The caller's atom object across an upsert *)

\* C28: upsert does not modify the atom passed to it: after the call, on the
\* insert path and on the merge path, every field of the caller's atom, the
\* contents of its flower dictionary and its crystal_key included, is as it
\* was before the call.
C28_AtomUntouched ==
    [][Upsert => atoms' = atoms]_vars

---------------------------------------------------------------------------
(* The store read by other processes while one process upserts.  _write_all *)
(* opens the file with "w", which empties it, and the rows reach it as the  *)
(* buffer of the file object is flushed: at close, or earlier when it fills. *)

\* store.py 75-109 / 113-156 and the open of line 51: the rows are read, the
\* new rows are made, and the file is opened for writing and is empty
UpsertBegin(c) ==
    LET atom == AtomTable[c, clock]
        call == upsert(atom, file, clock)
    IN  /\ last.writing = None
        /\ UpsertInBounds(atom)
        /\ ~call.raised
        /\ file' = [exists |-> TRUE, lines |-> <<>>]
        /\ last' = [last EXCEPT !.op = "upsert",
                                !.writing = Some([before |-> file, after |-> call.file,
                                                  key |-> CrystalOf(atom),
                                                  petal_area |-> atom.flower.petal_area])]
        /\ UNCHANGED <<clock, atoms, atomVars, pureVars>>

\* store.py 52-53: the buffer is flushed with k whole lines written so far
\* and, when partial, a part of the next one
Flush(k, partial) ==
    /\ last.writing /= None
    /\ k >= Len(_read_all(file))
    /\ k <= Len(last.writing[1].after.lines)
    /\ partial => k < Len(last.writing[1].after.lines)
    /\ file' = _write_allCrashed(last.writing[1].after.lines, k, partial)
    /\ UNCHANGED <<clock, atoms, last, atomVars, pureVars>>

\* the with block of store.py 51-53 ends: every row is in the file
UpsertEnd ==
    /\ last.writing /= None
    /\ file' = last.writing[1].after
    /\ last' = [last EXCEPT
                    !.op = "upsert",
                    !.writing = None,
                    !.upserts[last.writing[1].key] = @ + 1,
                    !.areas[last.writing[1].key] = Append(@, last.writing[1].petal_area)]
    /\ UNCHANGED <<clock, atoms, atomVars, pureVars>>

\* One writer, whose upserts take steps, and readers that query in between
NextShared ==
    \/ \E c \in StoreCalls : UpsertBegin(c)
    \/ \E k \in 0..MaxLines, partial \in BOOLEAN : Flush(k, partial)
    \/ UpsertEnd
    \/ \E q \in StoreQueries : RunQuery(q)
    \/ RunStats

SpecShared == Init /\ [][NextShared]_vars

\* C29: with one writer and concurrent readers, a query or stats call made
\* while an upsert is under way observes a complete row set: all the rows as
\* they were before the upsert or all the rows as they are after it, never
\* the empty or partial file of the rewrite in progress.
C29_ReaderSeesWholeSet ==
    (last.writing /= None /\ last.op \in {"query", "stats"}) =>
        LET w == last.writing[1]
        IN  /\ last.n \in {Len(_read_all(w.before)), Len(_read_all(w.after))}
            /\ last.op = "stats" => last.res \in {stats(w.before), stats(w.after)}
            /\ last.op = "query" =>
                  last.res \in {query(q, f) : q \in StoreQueries, f \in {w.before, w.after}}

====
